---------------------------- MODULE Spec2Model ----------------------------
(***************************************************************************)
(* agent-context: the static analyzer of Python files                      *)
(* (src/agent_context/python_analyzer.py).                                 *)
(*                                                                         *)
(* A file is a path and a text.  The text is a sequence of top-level       *)
(* chunks (each the source of one top-level statement, or a blank line)    *)
(* joined by newlines.  ast.parse is a table from the chunks of Catalogue  *)
(* to the syntax trees CPython builds for them; a chunk outside the table  *)
(* is a syntax error.  Python strings are TLA+ strings, Python lists are   *)
(* sequences, dicts and AST nodes are records.                             *)
(***************************************************************************)
EXTENDS Integers, Sequences, FiniteSets, TLC

(***************************************************************************)
(* Python str operations used by the analyzer.                             *)
(***************************************************************************)

\* The characters of Python identifiers in code-point order.
CodePoints == "0123456789ABCDEFGHIJKLMNOPQRSTUVWXYZ_abcdefghijklmnopqrstuvwxyz"

UpperLetters == "ABCDEFGHIJKLMNOPQRSTUVWXYZ"

LowerLetters == "abcdefghijklmnopqrstuvwxyz"

Whitespace == {" ", "\n"}

CharAt(s, i) == SubSeq(s, i, i)

\* The 1-based position of one-character string c in s, 0 when absent.
IndexIn(s, c) ==
    IF \E i \in 1..Len(s) : CharAt(s, i) = c
    THEN CHOOSE i \in 1..Len(s) : CharAt(s, i) = c /\ \A j \in 1..(i - 1) : CharAt(s, j) # c
    ELSE 0

\* ord(c)
Ord(c) == IndexIn(CodePoints, c)

\* sub in s
Contains(s, sub) ==
    \E i \in 1..(Len(s) - Len(sub) + 1) : SubSeq(s, i, i + Len(sub) - 1) = sub

\* s.startswith(prefix)
StartsWith(s, prefix) ==
    Len(s) >= Len(prefix) /\ SubSeq(s, 1, Len(prefix)) = prefix

\* s[:n]
Prefix(s, n) == IF Len(s) <= n THEN s ELSE SubSeq(s, 1, n)

\* xs[:n] for a list
FirstN(xs, n) == IF Len(xs) <= n THEN xs ELSE SubSeq(xs, 1, n)

\* s.strip()
RECURSIVE LStrip(_)
LStrip(s) ==
    IF Len(s) > 0 /\ CharAt(s, 1) \in Whitespace THEN LStrip(SubSeq(s, 2, Len(s))) ELSE s

RECURSIVE RStrip(_)
RStrip(s) ==
    IF Len(s) > 0 /\ CharAt(s, Len(s)) \in Whitespace THEN RStrip(SubSeq(s, 1, Len(s) - 1)) ELSE s

Strip(s) == RStrip(LStrip(s))

\* s.upper()
RECURSIVE StrUpper(_)
StrUpper(s) ==
    IF Len(s) = 0 THEN ""
    ELSE LET c == CharAt(s, 1)
             k == IndexIn(LowerLetters, c)
         IN  (IF k > 0 THEN CharAt(UpperLetters, k) ELSE c) \o StrUpper(SubSeq(s, 2, Len(s)))

\* s.isupper(): no lower-case letter and at least one upper-case letter
IsUpper(s) ==
    /\ \A i \in 1..Len(s) : IndexIn(LowerLetters, CharAt(s, i)) = 0
    /\ \E i \in 1..Len(s) : IndexIn(UpperLetters, CharAt(s, i)) > 0

\* a < b for Python strings (code-point order)
RECURSIVE StrLess(_, _)
StrLess(a, b) ==
    IF Len(b) = 0 THEN FALSE
    ELSE IF Len(a) = 0 THEN TRUE
    ELSE IF CharAt(a, 1) = CharAt(b, 1) THEN StrLess(SubSeq(a, 2, Len(a)), SubSeq(b, 2, Len(b)))
    ELSE Ord(CharAt(a, 1)) < Ord(CharAt(b, 1))

\* sep.join(parts)
RECURSIVE Join(_, _)
Join(parts, sep) ==
    IF Len(parts) = 0 THEN ""
    ELSE IF Len(parts) = 1 THEN parts[1]
    ELSE parts[1] \o sep \o Join(Tail(parts), sep)

\* the concatenation of a list of lists
RECURSIVE Flatten(_)
Flatten(ss) == IF Len(ss) = 0 THEN <<>> ELSE Head(ss) \o Flatten(Tail(ss))

\* Python's None where a string may stand (a docstring, a value, main_block).
NoneStr == "<None>"


(***************************************************************************)
(* Syntax trees (the classes of Python's ast module).  A node is a record  *)
(* whose "type" is the class name; its other fields are the class's        *)
(* fields.  A Constant holds the text of its literal in "value" and says   *)
(* in "kind" whether the literal is an int or a str.                       *)
(***************************************************************************)

\* None where a node may stand (an annotation, a vararg, a value).
NoNode == [type |-> "None"]

Num(text) == [type |-> "Constant", kind |-> "int", value |-> text]

Str(text) == [type |-> "Constant", kind |-> "str", value |-> text]

Name(id) == [type |-> "Name", id |-> id]

Attribute(value, attr) == [type |-> "Attribute", value |-> value, attr |-> attr]

Call(func, args) == [type |-> "Call", func |-> func, args |-> args]

Compare(left, op, right) == [type |-> "Compare", left |-> left, op |-> op, right |-> right]

TupleOf(elts) == [type |-> "Tuple", elts |-> elts]

Arg(name, annotation) == [arg |-> name, annotation |-> annotation]

Arguments(posonlyargs, args, vararg, kwonlyargs, kw_defaults, kwarg, defaults) ==
    [posonlyargs |-> posonlyargs, args |-> args, vararg |-> vararg,
     kwonlyargs |-> kwonlyargs, kw_defaults |-> kw_defaults, kwarg |-> kwarg,
     defaults |-> defaults]

Alias(name) == [name |-> name]

Import(names) == [type |-> "Import", names |-> names]

ImportFrom(module, names, level) ==
    [type |-> "ImportFrom", module |-> module, names |-> names, level |-> level]

Assign(targets, value) == [type |-> "Assign", targets |-> targets, value |-> value]

AnnAssign(target, annotation, value) ==
    [type |-> "AnnAssign", target |-> target, annotation |-> annotation, value |-> value]

FunctionDef(name, args, body, decorator_list, returns) ==
    [type |-> "FunctionDef", name |-> name, args |-> args, body |-> body,
     decorator_list |-> decorator_list, returns |-> returns]

AsyncFunctionDef(name, args, body, decorator_list, returns) ==
    [type |-> "AsyncFunctionDef", name |-> name, args |-> args, body |-> body,
     decorator_list |-> decorator_list, returns |-> returns]

ClassDef(name, bases, body) ==
    [type |-> "ClassDef", name |-> name, bases |-> bases, body |-> body]

If(test, body, orelse) == [type |-> "If", test |-> test, body |-> body, orelse |-> orelse]

Expr(value) == [type |-> "Expr", value |-> value]

Return(value) == [type |-> "Return", value |-> value]

Pass == [type |-> "Pass"]

\* The sum 0+0+...+0 of n zeros.  The parser nests it to the left, n levels
\* deep: BinOp(BinOp(.., +, 0), +, 0).  The model holds the n levels as one
\* node that records n.
Sum(n) == [type |-> "BinOp", zeros |-> n]

\* A text of that sum, written without blanks: 0+0+...+0.
RECURSIVE SumSrc(_)
SumSrc(n) ==
    IF n <= 1 THEN "0"
    ELSE IF n % 2 = 0 THEN LET half == SumSrc(n \div 2) IN half \o "+" \o half
    ELSE SumSrc(n - 1) \o "+0"

(***************************************************************************)
(* ast.unparse.  It recurses over the tree and raises RecursionError on a  *)
(* tree nested more deeply than the interpreter's recursion limit allows;  *)
(* every caller in the analyzer catches that as Exception.                 *)
(***************************************************************************)

\* How deep a tree ast.unparse can render: a limit the interpreter sets, not
\* the analyzer.
UnparseDepthLimit == 140

Max(a, b) == IF a >= b THEN a ELSE b

RECURSIVE Depth(_)
RECURSIVE DepthAll(_)
\* The nesting depth of a tree: what the recursion of ast.unparse goes through.
Depth(e) ==
    CASE e.type = "BinOp" -> e.zeros
      [] e.type = "Compare" -> 1 + Max(Depth(e.left), Depth(e.right))
      [] e.type = "Attribute" -> 1 + Depth(e.value)
      [] e.type = "Call" -> 1 + Max(Depth(e.func), DepthAll(e.args))
      [] e.type = "Tuple" -> 1 + DepthAll(e.elts)
      [] e.type = "Expr" -> 1 + Depth(e.value)
      [] e.type = "Return" -> 1 + Depth(e.value)
      [] e.type = "Assign" -> 1 + Max(DepthAll(e.targets), Depth(e.value))
      [] OTHER -> 1
DepthAll(es) == IF Len(es) = 0 THEN 0 ELSE Max(Depth(Head(es)), DepthAll(Tail(es)))

\* ast.unparse(e) returns (it does not raise)
CanUnparse(e) == Depth(e) <= UnparseDepthLimit

\* the rendering of the sum of n zeros: 0 + 0 + ... + 0
RECURSIVE SumText(_)
SumText(n) == IF n <= 1 THEN "0" ELSE SumText(n - 1) \o " + 0"

RECURSIVE unparse(_)
unparse(e) ==
    CASE e.type = "Constant" -> IF e.kind = "str" THEN "'" \o e.value \o "'" ELSE e.value
      [] e.type = "Name" -> e.id
      [] e.type = "Attribute" -> unparse(e.value) \o "." \o e.attr
      [] e.type = "BinOp" -> SumText(e.zeros)
      [] e.type = "Compare" -> unparse(e.left) \o " " \o e.op \o " " \o unparse(e.right)
      [] e.type = "Call" ->
            unparse(e.func) \o "(" \o Join([i \in 1..Len(e.args) |-> unparse(e.args[i])], ", ") \o ")"
      [] e.type = "Tuple" ->
            "(" \o Join([i \in 1..Len(e.elts) |-> unparse(e.elts[i])], ", ") \o ")"
      [] e.type = "Expr" -> unparse(e.value)
      [] e.type = "Pass" -> "pass"
      [] e.type = "Return" ->
            IF e.value = NoNode THEN "return" ELSE "return " \o unparse(e.value)
      [] e.type = "Assign" ->
            Join([i \in 1..Len(e.targets) |-> unparse(e.targets[i])], " = ")
                \o " = " \o unparse(e.value)


\* s.lower()
RECURSIVE StrLower(_)
StrLower(s) ==
    IF Len(s) = 0 THEN ""
    ELSE LET c == CharAt(s, 1)
             k == IndexIn(UpperLetters, c)
         IN  (IF k > 0 THEN CharAt(LowerLetters, k) ELSE c) \o StrLower(SubSeq(s, 2, Len(s)))

\* [ast.unparse(e) for e in es]
UnparseAll(es) == [i \in 1..Len(es) |-> unparse(es[i])]

\* no ast.unparse(e) for e in es raises
CanUnparseAll(es) == \A i \in 1..Len(es) : CanUnparse(es[i])

(***************************************************************************)
(* format_function_signature.  Its result is [raised, value]: raised when  *)
(* an exception leaves the function (ast.unparse failing, or an index      *)
(* outside the list), and otherwise value is the signature.                *)
(***************************************************************************)

Raised == [raised |-> TRUE, value |-> ""]

Returned(v) == [raised |-> FALSE, value |-> v]

\* name, or name: annotation
ArgStr(arg) ==
    IF arg.annotation # NoNode THEN arg.arg \o ": " \o unparse(arg.annotation) ELSE arg.arg

ArgStrRaises(arg) == arg.annotation # NoNode /\ ~CanUnparse(arg.annotation)

\* The 1-based position Python's list[idx] reads in a list of length n (a
\* negative idx counts from the end), 0 when it raises IndexError.
PyIndex(idx, n) ==
    IF 0 <= idx /\ idx < n THEN idx + 1
    ELSE IF idx < 0 /\ idx >= 0 - n THEN idx + n + 1
    ELSE 0

\* for i, default in enumerate(defaults): ... args[idx] = f"{args[idx]}={default_str}"
\* from the i-th default (1-based) on; the result is [raised, args].
RECURSIVE AttachDefaults(_, _, _, _)
AttachDefaults(args, defaults, start_idx, i) ==
    IF i > Len(defaults) THEN [raised |-> FALSE, args |-> args]
    ELSE LET idx == start_idx + (i - 1)
         IN  IF idx < Len(args)
             THEN IF ~CanUnparse(defaults[i]) \/ PyIndex(idx, Len(args)) = 0
                  THEN [raised |-> TRUE, args |-> args]
                  ELSE AttachDefaults(
                           [args EXCEPT ![PyIndex(idx, Len(args))] = @ \o "=" \o unparse(defaults[i])],
                           defaults, start_idx, i + 1)
             ELSE AttachDefaults(args, defaults, start_idx, i + 1)

\* a variant that leaves the annotation of a variadic parameter out
StarArgBare(stars, arg) == stars \o arg.arg

\* "*name" or "**name", with ": annotation" when annotated
StarArg(stars, arg) == stars \o ArgStr(arg)

format_function_signature(func_node) ==
    LET a == func_node.args
        args0 == [i \in 1..Len(a.args) |-> ArgStr(a.args[i])]
        num_defaults == Len(a.defaults)
        num_args == Len(a.args)
        start_idx == num_args - num_defaults
        withDefaults == IF num_defaults > 0
                        THEN AttachDefaults(args0, a.defaults, start_idx, 1)
                        ELSE [raised |-> FALSE, args |-> args0]
        args1 == withDefaults.args
        args2 == IF a.vararg # NoNode THEN Append(args1, StarArg("*", a.vararg)) ELSE args1
        args3 == IF a.kwarg # NoNode THEN Append(args2, StarArg("**", a.kwarg)) ELSE args2
        sig == "def " \o func_node.name \o "(" \o Join(args3, ", ") \o ")"
    IN  IF \E i \in 1..Len(a.args) : ArgStrRaises(a.args[i]) THEN Raised
        ELSE IF withDefaults.raised THEN Raised
        ELSE IF a.vararg # NoNode /\ ArgStrRaises(a.vararg) THEN Raised
        ELSE IF a.kwarg # NoNode /\ ArgStrRaises(a.kwarg) THEN Raised
        ELSE IF func_node.returns # NoNode
             THEN IF CanUnparse(func_node.returns)
                  THEN Returned(sig \o " -> " \o unparse(func_node.returns))
                  ELSE Raised
             ELSE Returned(sig)

\* ast.get_docstring(node): the text of a string literal that is the first
\* statement of the body, cleaned (inspect.cleandoc: for the one-line
\* docstrings of the model, its leading blanks removed); None without one.
get_docstring(node) ==
    IF /\ Len(node.body) > 0
       /\ node.body[1].type = "Expr"
       /\ node.body[1].value.type = "Constant"
       /\ node.body[1].value.kind = "str"
    THEN LStrip(node.body[1].value.value)
    ELSE NoneStr

\* extract_docstring: None for no docstring and for an empty one
extract_docstring(node) ==
    IF get_docstring(node) # NoneStr /\ get_docstring(node) # "" THEN get_docstring(node) ELSE NoneStr


(***************************************************************************)
(* analyze_python_file                                                     *)
(***************************************************************************)

\* What analyze_python_file returns for a file it skips.
None == [skipped |-> TRUE]

IsFunction(node) == node.type \in {"FunctionDef", "AsyncFunctionDef"}

IsImport(node) == node.type \in {"Import", "ImportFrom"}

\* ast.iter_child_nodes, the statements among them: the body of a compound
\* statement, then the else branch of an if.
ChildStmts(node) ==
    CASE node.type \in {"Module", "FunctionDef", "AsyncFunctionDef", "ClassDef"} -> node.body
      [] node.type = "If" -> node.body \o node.orelse
      [] OTHER -> <<>>

\* ast.walk, the statements it yields: breadth first, a node's children
\* joining the end of the queue when the node is taken from its front.
RECURSIVE WalkQueue(_)
WalkQueue(todo) ==
    IF Len(todo) = 0 THEN <<>>
    ELSE <<Head(todo)>> \o WalkQueue(Tail(todo) \o ChildStmts(Head(todo)))

walk(tree) == WalkQueue(<<tree>>)

\* the strings one import statement appends to analysis['imports']
ImportStrings(node) ==
    IF node.type = "Import"
    THEN [i \in 1..Len(node.names) |-> "import " \o node.names[i].name]
    ELSE IF node.type = "ImportFrom"
    THEN LET module == IF node.module # NoneStr THEN node.module ELSE ""
             names == Join([i \in 1..Len(node.names) |-> node.names[i].name], ", ")
         IN  <<"from " \o module \o " import " \o names>>
    ELSE <<>>

\* "Extract imports": over ast.walk(tree)
ExtractImports(tree) ==
    LET nodes == walk(tree)
    IN  Flatten([i \in 1..Len(nodes) |-> ImportStrings(nodes[i])])

\* list(dict.fromkeys(xs)): the first occurrence of each, in order
RECURSIVE DictFromKeys(_, _)
DictFromKeys(xs, seen) ==
    IF Len(xs) = 0 THEN <<>>
    ELSE IF Head(xs) \in seen THEN DictFromKeys(Tail(xs), seen)
    ELSE <<Head(xs)>> \o DictFromKeys(Tail(xs), seen \cup {Head(xs)})

\* a variant that keeps every collected import
KeepDuplicates(xs) == xs

\* analysis['imports'] = list(dict.fromkeys(analysis['imports']))
RemoveDuplicates(xs) == DictFromKeys(xs, {})

\* a variant of the sort key that holds the name alone
NameLess(a, b) == StrLess(a.name, b.name)

\* The sort key (x['is_public'] == False, x['name']) of a is less than that of b.
KeyLess(a, b) ==
    \/ a.is_public /\ ~b.is_public
    \/ a.is_public = b.is_public /\ StrLess(a.name, b.name)

\* list.sort(key=...): stable, an entry going behind the entries whose key
\* is not greater than its own.
RECURSIVE InsertByKey(_, _)
InsertByKey(sorted, x) ==
    IF Len(sorted) = 0 THEN <<x>>
    ELSE IF KeyLess(x, Head(sorted)) THEN <<x>> \o sorted
    ELSE <<Head(sorted)>> \o InsertByKey(Tail(sorted), x)

RECURSIVE SortFrom(_, _)
SortFrom(sorted, rest) ==
    IF Len(rest) = 0 THEN sorted ELSE SortFrom(InsertByKey(sorted, Head(rest)), Tail(rest))

SortPublicFirst(xs) == SortFrom(<<>>, xs)

IsPublic(name) == ~StartsWith(name, "_")

\* a variant that skips no method
IsNeverJustPass(item) == FALSE

\* "Skip empty methods (just pass)"
IsJustPass(item) == Len(item.body) = 1 /\ item.body[1].type = "Pass"

\* any('property' in ast.unparse(d).lower() for d in item.decorator_list)
IsProperty(item) ==
    \E i \in 1..Len(item.decorator_list) :
        Contains(StrLower(unparse(item.decorator_list[i])), "property")

\* the method_info entries one item of a class body appends (none when it
\* is no function, is just pass, or raises)
MethodEntries(item) ==
    IF ~IsFunction(item) THEN <<>>
    ELSE IF IsJustPass(item) THEN <<>>
    ELSE IF format_function_signature(item).raised \/ ~CanUnparseAll(item.decorator_list)
    THEN <<>>
    ELSE << [name |-> item.name,
             signature |-> format_function_signature(item).value,
             docstring |-> extract_docstring(item),
             is_public |-> IsPublic(item.name),
             is_property |-> IsProperty(item),
             decorators |-> UnparseAll(item.decorator_list)] >>

\* a variant that records no attribute for a class-level plain assignment
NoAssignAttrEntries(item, target) == <<>>

\* the attr_info entries of one target of a class-level assignment
AssignAttrEntries(item, target) ==
    IF target.type # "Name" THEN <<>>
    ELSE IF ~CanUnparse(item.value) THEN <<>>
    ELSE << [name |-> target.id,
             value |-> Prefix(unparse(item.value), 100),
             is_public |-> IsPublic(target.id)] >>

\* the attr_info entries one item of a class body appends
AttrEntries(item) ==
    IF item.type = "Assign"
    THEN Flatten([i \in 1..Len(item.targets) |-> AssignAttrEntries(item, item.targets[i])])
    ELSE IF item.type = "AnnAssign"
    THEN IF item.target.type # "Name" THEN <<>>
         ELSE IF ~CanUnparse(item.annotation) THEN <<>>
         ELSE IF item.value # NoNode /\ ~CanUnparse(item.value) THEN <<>>
         ELSE << [name |-> item.target.id,
                  type |-> unparse(item.annotation),
                  value |-> IF item.value # NoNode
                            THEN Prefix(unparse(item.value), 100) ELSE NoneStr,
                  is_public |-> IsPublic(item.target.id)] >>
    ELSE <<>>

\* a class pass without the inner handlers: a method or attribute that
\* raises takes the whole class with it
ClassEntriesAllOrNothing(node) ==
    IF node.type # "ClassDef" THEN <<>>
    ELSE IF ~CanUnparseAll(node.bases) THEN <<>>
    ELSE IF \E i \in 1..Len(node.body) :
                LET item == node.body[i]
                IN  \/ /\ IsFunction(item)
                       /\ ~IsJustPass(item)
                       /\ \/ format_function_signature(item).raised
                          \/ ~CanUnparseAll(item.decorator_list)
                    \/ item.type = "Assign" /\ ~CanUnparse(item.value)
         THEN <<>>
    ELSE << [name |-> node.name,
             docstring |-> extract_docstring(node),
             methods |-> SortPublicFirst(
                 Flatten([i \in 1..Len(node.body) |-> MethodEntries(node.body[i])])),
             bases |-> UnparseAll(node.bases),
             attributes |-> Flatten([i \in 1..Len(node.body) |-> AttrEntries(node.body[i])])] >>

\* the class_info entries one node of the walk appends (none when it is no
\* class, or a base fails to render)
ClassEntries(node) ==
    IF node.type # "ClassDef" THEN <<>>
    ELSE IF ~CanUnparseAll(node.bases) THEN <<>>
    ELSE << [name |-> node.name,
             docstring |-> extract_docstring(node),
             methods |-> SortPublicFirst(
                 Flatten([i \in 1..Len(node.body) |-> MethodEntries(node.body[i])])),
             bases |-> UnparseAll(node.bases),
             attributes |-> Flatten([i \in 1..Len(node.body) |-> AttrEntries(node.body[i])])] >>

\* "Extract classes and their methods": over ast.walk(tree)
ExtractClasses(tree) ==
    LET nodes == walk(tree)
    IN  Flatten([i \in 1..Len(nodes) |-> ClassEntries(nodes[i])])


\* a variant that has no branch for async functions
PlainFunctionEntries(node) ==
    IF node.type # "FunctionDef" THEN <<>>
    ELSE IF format_function_signature(node).raised \/ ~CanUnparseAll(node.decorator_list)
    THEN <<>>
    ELSE << [name |-> node.name,
             signature |-> format_function_signature(node).value,
             docstring |-> extract_docstring(node),
             is_public |-> IsPublic(node.name),
             decorators |-> UnparseAll(node.decorator_list)] >>

\* the func_info entries one top-level node appends
FunctionEntries(node) ==
    IF ~IsFunction(node) THEN <<>>
    ELSE IF format_function_signature(node).raised \/ ~CanUnparseAll(node.decorator_list)
    THEN <<>>
    ELSE << [name |-> node.name,
             signature |-> format_function_signature(node).value,
             docstring |-> extract_docstring(node),
             is_public |-> IsPublic(node.name),
             decorators |-> UnparseAll(node.decorator_list)] >>

\* a variant of the rule that takes upper-case names only
IsUpperCaseName(id) == IsUpper(id)

\* target.id.isupper() or '_' in target.id.upper()
IsConstantName(id) == IsUpper(id) \/ Contains(StrUpper(id), "_")

\* "Limit very long values"
ConstantValueLimit == 200

\* a variant that cuts a value as long as the limit too
LimitValueFromLimit(value_str) ==
    IF Len(value_str) >= ConstantValueLimit
    THEN Prefix(value_str, ConstantValueLimit) \o "..."
    ELSE value_str

LimitValue(value_str) ==
    IF Len(value_str) > ConstantValueLimit
    THEN Prefix(value_str, ConstantValueLimit) \o "..."
    ELSE value_str

\* the entries of analysis['constants'] of one target of a top-level assignment
TargetConstantEntries(node, target) ==
    IF target.type # "Name" THEN <<>>
    ELSE IF ~IsConstantName(target.id) THEN <<>>
    ELSE IF ~CanUnparse(node.value) THEN <<>>
    ELSE << [name |-> target.id, value |-> LimitValue(unparse(node.value))] >>

\* the entries of analysis['constants'] one top-level node appends
ConstantEntries(node) ==
    IF node.type # "Assign" THEN <<>>
    ELSE Flatten([i \in 1..Len(node.targets) |-> TargetConstantEntries(node, node.targets[i])])

\* a variant that asks for a base written exactly Enum
HasBaseNamedEnum(bases) == \E i \in 1..Len(bases) : bases[i] = "Enum"

\* any('Enum' in b for b in bases)
HasEnumBase(bases) == \E i \in 1..Len(bases) : Contains(bases[i], "Enum")

\* a variant of the heuristic that looks at the bases only
LooksLikeExceptionByBase(class_name, bases) ==
    \E i \in 1..Len(bases) : Contains(bases[i], "Exception") \/ Contains(bases[i], "Error")

\* any('Exception' in b or 'Error' in b for b in bases) or 'Error' in
\* class_name or 'Exception' in class_name
LooksLikeException(class_name, bases) ==
    \/ \E i \in 1..Len(bases) : Contains(bases[i], "Exception") \/ Contains(bases[i], "Error")
    \/ Contains(class_name, "Error")
    \/ Contains(class_name, "Exception")

\* the members one target of an assignment in an enum's body appends
TargetMemberEntries(item, target) ==
    IF target.type # "Name" THEN <<>>
    ELSE IF ~CanUnparse(item.value) THEN <<>>
    ELSE << [name |-> target.id, value |-> unparse(item.value)] >>

MemberEntries(item) ==
    IF item.type # "Assign" THEN <<>>
    ELSE Flatten([i \in 1..Len(item.targets) |-> TargetMemberEntries(item, item.targets[i])])

\* the enum_info entries one top-level node appends
EnumEntries(node) ==
    IF node.type # "ClassDef" THEN <<>>
    ELSE IF ~CanUnparseAll(node.bases) THEN <<>>
    ELSE IF HasEnumBase(UnparseAll(node.bases))
    THEN << [name |-> node.name,
             docstring |-> extract_docstring(node),
             members |-> Flatten([i \in 1..Len(node.body) |-> MemberEntries(node.body[i])])] >>
    ELSE <<>>

\* the exc_info entries one top-level node appends: the elif of the enum check
ExceptionEntries(node) ==
    IF node.type # "ClassDef" THEN <<>>
    ELSE IF ~CanUnparseAll(node.bases) THEN <<>>
    ELSE IF HasEnumBase(UnparseAll(node.bases)) THEN <<>>
    ELSE IF LooksLikeException(node.name, UnparseAll(node.bases))
    THEN << [name |-> node.name,
             docstring |-> extract_docstring(node),
             bases |-> UnparseAll(node.bases)] >>
    ELSE <<>>

\* the type_alias entries one top-level node appends
TypeAliasEntries(node) ==
    IF node.type # "AnnAssign" THEN <<>>
    ELSE IF node.target.type # "Name" THEN <<>>
    ELSE IF ~CanUnparse(node.annotation) THEN <<>>
    ELSE IF node.value # NoNode /\ ~CanUnparse(node.value) THEN <<>>
    ELSE << [name |-> node.target.id,
             type |-> unparse(node.annotation),
             value |-> IF node.value # NoNode THEN unparse(node.value) ELSE NoneStr] >>

\* "Limit to first 5 statements"
MainBlockStatements == 5

\* "Skip very long lines"
MainLineLimit == 500

\* a line that is cut to the limit instead of being skipped
MainCodeLinesCapped(stmt) ==
    IF ~CanUnparse(stmt) THEN <<>>
    ELSE <<Prefix(unparse(stmt), MainLineLimit)>>

\* the lines one statement of the guard's body appends to main_code
MainCodeLines(stmt) ==
    IF ~CanUnparse(stmt) THEN <<>>
    ELSE IF Len(unparse(stmt)) < MainLineLimit THEN <<unparse(stmt)>>
    ELSE <<>>

\* main_code built from every statement of the body
MainCodeOfWholeBody(node) ==
    IF node.type # "If" THEN <<>>
    ELSE IF node.test.type # "Compare" THEN <<>>
    ELSE IF ~CanUnparse(node.test) THEN <<>>
    ELSE IF Contains(unparse(node.test), "__name__") /\ Contains(unparse(node.test), "__main__")
    THEN Flatten([i \in 1..Len(node.body) |-> MainCodeLines(node.body[i])])
    ELSE <<>>

\* main_code of a top-level if; the empty list when the if is no main guard
MainCode(node) ==
    IF node.type # "If" THEN <<>>
    ELSE IF node.test.type # "Compare" THEN <<>>
    ELSE IF ~CanUnparse(node.test) THEN <<>>
    ELSE IF Contains(unparse(node.test), "__name__") /\ Contains(unparse(node.test), "__main__")
    THEN LET first == FirstN(node.body, MainBlockStatements)
         IN  Flatten([i \in 1..Len(first) |-> MainCodeLines(first[i])])
    ELSE <<>>

\* analysis['main_block'] after the top-level nodes from the i-th on, when it
\* is main_block before them: a later guard with code replaces an earlier one
RECURSIVE MainBlockFrom(_, _, _)
MainBlockFrom(body, i, main_block) ==
    IF i > Len(body) THEN main_block
    ELSE MainBlockFrom(body, i + 1,
             IF Len(MainCode(body[i])) > 0 THEN Join(MainCode(body[i]), "\n") ELSE main_block)


(***************************************************************************)
(* Files.  A file's text is its chunks joined by newlines; each chunk is   *)
(* the source of one top-level statement or a blank line.                  *)
(***************************************************************************)

\* A line of blanks: it parses to no statement.
Blank == [type |-> "Blank"]

\* The number of zeros of a sum whose rendering is longer than the limit of
\* a constant's value: 4n - 3 characters for n zeros.
LongTerms == 51

\* The number of zeros of a sum nested too deeply for ast.unparse.
DeepTerms == UnparseDepthLimit + 10

\* The chunks of the model's files, each with the tree ast.parse builds of it.
Catalogue ==
    << [src |-> "   ", node |-> Blank],
       [src |-> "\"\"\" Package. \"\"\"", node |-> Expr(Str(" Package. "))],
       [src |-> "import os", node |-> Import(<<Alias("os")>>)],
       [src |-> "import os, sys", node |-> Import(<<Alias("os"), Alias("sys")>>)],
       [src |-> "from os import path, sep", node |-> ImportFrom("os", <<Alias("path"), Alias("sep")>>,
         0)],
       [src |-> "from . import x", node |-> ImportFrom(NoneStr, <<Alias("x")>>, 1)],
       [src |-> "import x", node |-> Import(<<Alias("x")>>)],
       [src |-> "import xyz", node |-> Import(<<Alias("xyz")>>)],
       [src |-> "MAX_RETRIES = 3", node |-> Assign(<<Name("MAX_RETRIES")>>, Num("3"))],
       [src |-> "max_retries = 3", node |-> Assign(<<Name("max_retries")>>, Num("3"))],
       [src |-> "retries = 3", node |-> Assign(<<Name("retries")>>, Num("3"))],
       [src |-> "A = b = c_d = 1", node |-> Assign(<<Name("A"), Name("b"), Name("c_d")>>, Num("1"))],
       [src |-> "X, Y = 1, 2", node |-> Assign(<<TupleOf(<<Name("X"), Name("Y")>>)>>,
         TupleOf(<<Num("1"), Num("2")>>))],
       [src |-> "TIMEOUT: int = 30", node |-> AnnAssign(Name("TIMEOUT"), Name("int"), Num("30"))],
       [src |-> "BIG = " \o SumSrc(LongTerms), node |-> Assign(<<Name("BIG")>>, Sum(LongTerms))],
       [src |-> "DEEP = " \o SumSrc(DeepTerms), node |-> Assign(<<Name("DEEP")>>, Sum(DeepTerms))],
       [src |-> "def add(a, b=2) -> int: return a", node |-> FunctionDef("add", Arguments(<<>>,
         <<Arg("a", NoNode), Arg("b", NoNode)>>, NoNode, <<>>, <<>>, NoNode, <<Num("2")>>),
         <<Return(Name("a"))>>, <<>>, Name("int"))],
       [src |-> "def _helper():\n    X_IN = 1\n    import json\n    import os\n    class Inner: pass\n    def nested(): return 1",
         node |-> FunctionDef("_helper", Arguments(<<>>, <<>>, NoNode, <<>>, <<>>, NoNode,
         <<>>), <<Assign(<<Name("X_IN")>>, Num("1")), Import(<<Alias("json")>>),
         Import(<<Alias("os")>>), ClassDef("Inner", <<>>, <<Pass>>), FunctionDef("nested",
         Arguments(<<>>, <<>>, NoNode, <<>>, <<>>, NoNode, <<>>), <<Return(Num("1"))>>, <<>>,
         NoNode)>>, <<>>, NoNode)],
       [src |-> "async def fetch(url): return url", node |-> AsyncFunctionDef("fetch", Arguments(<<>>,
         <<Arg("url", NoNode)>>, NoNode, <<>>, <<>>, NoNode, <<>>), <<Return(Name("url"))>>,
         <<>>, NoNode)],
       [src |-> "def Beta(): pass", node |-> FunctionDef("Beta", Arguments(<<>>, <<>>, NoNode, <<>>,
         <<>>, NoNode, <<>>), <<Pass>>, <<>>, NoNode)],
       [src |-> "class Color(Enum): RED = 1", node |-> ClassDef("Color", <<Name("Enum")>>,
         <<Assign(<<Name("RED")>>, Num("1"))>>)],
       [src |-> "class ParseError(Exception): pass", node |-> ClassDef("ParseError",
         <<Name("Exception")>>, <<Pass>>)],
       [src |-> "class ErrorCode(Enum): OK = 0", node |-> ClassDef("ErrorCode", <<Name("Enum")>>,
         <<Assign(<<Name("OK")>>, Num("0"))>>)],
       [src |-> "class Failure(ValueError): pass", node |-> ClassDef("Failure",
         <<Name("ValueError")>>, <<Pass>>)],
       [src |-> "class ErrorReport: pass", node |-> ClassDef("ErrorReport", <<>>, <<Pass>>)],
       [src |-> "class Status(enum.Enum):\n    A = B = 1\n    name: str = 'x'",
         node |-> ClassDef("Status", <<Attribute(Name("enum"), "Enum")>>, <<Assign(<<Name("A"),
         Name("B")>>, Num("1")), AnnAssign(Name("name"), Name("str"), Str("x"))>>)],
       [src |-> "class Foo:\n    def _private(self): pass", node |-> ClassDef("Foo", <<>>,
         <<FunctionDef("_private", Arguments(<<>>, <<Arg("self", NoNode)>>, NoNode, <<>>, <<>>,
         NoNode, <<>>), <<Pass>>, <<>>, NoNode)>>)],
       [src |-> "class Outer:\n    \"\"\"Doc.\"\"\"\n    class Inner: pass\n    def b(self): return 1\n    def _a(self): return 2\n    def a(self): return 3\n    @property\n    def p(self): return 4\n    x = 1\n    _y: int",
         node |-> ClassDef("Outer", <<>>, <<Expr(Str("Doc.")), ClassDef("Inner", <<>>,
         <<Pass>>), FunctionDef("b", Arguments(<<>>, <<Arg("self", NoNode)>>, NoNode, <<>>,
         <<>>, NoNode, <<>>), <<Return(Num("1"))>>, <<>>, NoNode), FunctionDef("_a",
         Arguments(<<>>, <<Arg("self", NoNode)>>, NoNode, <<>>, <<>>, NoNode, <<>>),
         <<Return(Num("2"))>>, <<>>, NoNode), FunctionDef("a", Arguments(<<>>, <<Arg("self",
         NoNode)>>, NoNode, <<>>, <<>>, NoNode, <<>>), <<Return(Num("3"))>>, <<>>, NoNode),
         FunctionDef("p", Arguments(<<>>, <<Arg("self", NoNode)>>, NoNode, <<>>, <<>>, NoNode,
         <<>>), <<Return(Num("4"))>>, <<Name("property")>>, NoNode), Assign(<<Name("x")>>,
         Num("1")), AnnAssign(Name("_y"), Name("int"), NoNode)>>)],
       [src |-> "class Plain(Base): x = 1", node |-> ClassDef("Plain", <<Name("Base")>>,
         <<Assign(<<Name("x")>>, Num("1"))>>)],
       [src |-> "if __name__ == \"__main__\": main()", node |-> If(Compare(Name("__name__"), "==",
         Str("__main__")), <<Expr(Call(Name("main"), <<>>))>>, <<>>)],
       [src |-> "if DEBUG: LEVEL_X = 1", node |-> If(Name("DEBUG"), <<Assign(<<Name("LEVEL_X")>>,
         Num("1"))>>, <<>>)] >>


\* Texts that are not valid Python.
Malformed == {"def broken(:", "x = = 1"}

CatalogueSources == {Catalogue[i].src : i \in DOMAIN Catalogue}


(***************************************************************************)
(* A family of function definitions, one per shape of parameter list:      *)
(* def f(p1, .., /, a1, .., *args, k1, **kwargs) -> int: return 0          *)
(* with the last d of the positional parameters given defaults.  The       *)
(* default of the positional parameter at 0-based position g is 10 + g.    *)
(***************************************************************************)

MaxPosOnly == 2

MaxArgs == 2

SigShapes ==
    { t \in [p : 0..MaxPosOnly, a : 0..MaxArgs, d : 0..(MaxPosOnly + MaxArgs), k : BOOLEAN,
             va : BOOLEAN, kw : BOOLEAN, ret : BOOLEAN, ann : BOOLEAN] : t.d <= t.p + t.a }

DefaultText(g) == ToString(10 + g)

\* the parameters' names
PosOnlyName(i) == "p" \o ToString(i)

ArgName(i) == "a" \o ToString(i)

SigNode(t) ==
    LET ann == IF t.ann THEN Name("int") ELSE NoNode
    IN  FunctionDef("f",
            Arguments([i \in 1..t.p |-> Arg(PosOnlyName(i), ann)],
                      [i \in 1..t.a |-> Arg(ArgName(i), ann)],
                      IF t.va THEN Arg("args", ann) ELSE NoNode,
                      IF t.k THEN <<Arg("k1", ann)>> ELSE <<>>,
                      IF t.k THEN <<NoNode>> ELSE <<>>,
                      IF t.kw THEN Arg("kwargs", ann) ELSE NoNode,
                      [j \in 1..t.d |-> Num(DefaultText(t.p + t.a - t.d + j - 1))]),
            <<Return(Num("0"))>>, <<>>, IF t.ret THEN Name("int") ELSE NoNode)

\* the text of the positional parameter at 0-based position g, as written
ParamSrc(t, name, g) ==
    name \o (IF t.ann THEN ": int" ELSE "")
         \o (IF g >= t.p + t.a - t.d THEN "=" \o DefaultText(g) ELSE "")

SigSrc(t) ==
    LET ann == IF t.ann THEN ": int" ELSE ""
        params ==
            [i \in 1..t.p |-> ParamSrc(t, PosOnlyName(i), i - 1)]
            \o (IF t.p > 0 THEN <<"/">> ELSE <<>>)
            \o [i \in 1..t.a |-> ParamSrc(t, ArgName(i), t.p + i - 1)]
            \o (IF t.va THEN <<"*args" \o ann>> ELSE IF t.k THEN <<"*">> ELSE <<>>)
            \o (IF t.k THEN <<"k1" \o ann>> ELSE <<>>)
            \o (IF t.kw THEN <<"**kwargs" \o ann>> ELSE <<>>)
    IN  "def f(" \o Join(params, ", ") \o ")" \o (IF t.ret THEN " -> int" ELSE "") \o ": return 0"

\* The definitions of the family, each with the tree ast.parse builds of it.
SigFamily == {[src |-> SigSrc(t), node |-> SigNode(t)] : t \in SigShapes}

SigSources == {e.src : e \in SigFamily}

(***************************************************************************)
(* Declarations: files of classes, methods, nested declarations, functions *)
(* whose names differ in case and in visibility, and constants whose       *)
(* values are as long as the limit on values and one character longer.     *)
(***************************************************************************)

\* the digit 1, n times: an integer literal of n characters
RECURSIVE Ones(_)
Ones(n) ==
    IF n <= 0 THEN ""
    ELSE IF n % 2 = 0 THEN LET half == Ones(n \div 2) IN half \o half
    ELSE Ones(n - 1) \o "1"

Declarations ==
    << [src |-> "class Foo:\n    def _private(self): pass", node |-> ClassDef("Foo", <<>>,
         <<FunctionDef("_private", Arguments(<<>>, <<Arg("self", NoNode)>>, NoNode, <<>>, <<>>,
         NoNode, <<>>), <<Pass>>, <<>>, NoNode)>>)],
       [src |-> "class Svc:\n    def stop(self): pass\n    async def run(self): return 1\n    def idle(self):\n        pass\n        pass\n    def run(self, x): return 2\n    def _m(self):\n        def inner(): return 3\n        return inner",
         node |-> ClassDef("Svc", <<>>, <<FunctionDef("stop", Arguments(<<>>, <<Arg("self",
         NoNode)>>, NoNode, <<>>, <<>>, NoNode, <<>>), <<Pass>>, <<>>, NoNode),
         AsyncFunctionDef("run", Arguments(<<>>, <<Arg("self", NoNode)>>, NoNode, <<>>, <<>>,
         NoNode, <<>>), <<Return(Num("1"))>>, <<>>, NoNode), FunctionDef("idle",
         Arguments(<<>>, <<Arg("self", NoNode)>>, NoNode, <<>>, <<>>, NoNode, <<>>), <<Pass,
         Pass>>, <<>>, NoNode), FunctionDef("run", Arguments(<<>>, <<Arg("self", NoNode),
         Arg("x", NoNode)>>, NoNode, <<>>, <<>>, NoNode, <<>>), <<Return(Num("2"))>>, <<>>,
         NoNode), FunctionDef("_m", Arguments(<<>>, <<Arg("self", NoNode)>>, NoNode, <<>>,
         <<>>, NoNode, <<>>), <<FunctionDef("inner", Arguments(<<>>, <<>>, NoNode, <<>>, <<>>,
         NoNode, <<>>), <<Return(Num("3"))>>, <<>>, NoNode), Return(Name("inner"))>>, <<>>,
         NoNode)>>)],
       [src |-> "class Kind(Enum):\n    A = 1\n    B = C = 2\n    x, y = 3, 4\n    label: str = 'k'\n    def show(self): return 1",
         node |-> ClassDef("Kind", <<Name("Enum")>>, <<Assign(<<Name("A")>>, Num("1")),
         Assign(<<Name("B"), Name("C")>>, Num("2")), Assign(<<TupleOf(<<Name("x"),
         Name("y")>>)>>, TupleOf(<<Num("3"), Num("4")>>)), AnnAssign(Name("label"),
         Name("str"), Str("k")), FunctionDef("show", Arguments(<<>>, <<Arg("self", NoNode)>>,
         NoNode, <<>>, <<>>, NoNode, <<>>), <<Return(Num("1"))>>, <<>>, NoNode)>>)],
       [src |-> "def outer():\n    class Hidden(Enum): Z = 1\n    def inner(): return 1\n    return inner",
         node |-> FunctionDef("outer", Arguments(<<>>, <<>>, NoNode, <<>>, <<>>, NoNode, <<>>),
         <<ClassDef("Hidden", <<Name("Enum")>>, <<Assign(<<Name("Z")>>, Num("1"))>>),
         FunctionDef("inner", Arguments(<<>>, <<>>, NoNode, <<>>, <<>>, NoNode, <<>>),
         <<Return(Num("1"))>>, <<>>, NoNode), Return(Name("inner"))>>, <<>>, NoNode)],
       [src |-> "class Box:\n    class Mode(IntEnum): ON = 1\n    def zeta(self): return 1\n    def Alpha(self): return 2\n    def _b(self): return 3\n    def _A(self): return 4\n    async def beta(self): return 5",
         node |-> ClassDef("Box", <<>>, <<ClassDef("Mode", <<Name("IntEnum")>>,
         <<Assign(<<Name("ON")>>, Num("1"))>>), FunctionDef("zeta", Arguments(<<>>,
         <<Arg("self", NoNode)>>, NoNode, <<>>, <<>>, NoNode, <<>>), <<Return(Num("1"))>>,
         <<>>, NoNode), FunctionDef("Alpha", Arguments(<<>>, <<Arg("self", NoNode)>>, NoNode,
         <<>>, <<>>, NoNode, <<>>), <<Return(Num("2"))>>, <<>>, NoNode), FunctionDef("_b",
         Arguments(<<>>, <<Arg("self", NoNode)>>, NoNode, <<>>, <<>>, NoNode, <<>>),
         <<Return(Num("3"))>>, <<>>, NoNode), FunctionDef("_A", Arguments(<<>>, <<Arg("self",
         NoNode)>>, NoNode, <<>>, <<>>, NoNode, <<>>), <<Return(Num("4"))>>, <<>>, NoNode),
         AsyncFunctionDef("beta", Arguments(<<>>, <<Arg("self", NoNode)>>, NoNode, <<>>, <<>>,
         NoNode, <<>>), <<Return(Num("5"))>>, <<>>, NoNode)>>)],
       [src |-> "class Flag(enum.IntFlag): R = 1", node |-> ClassDef("Flag", <<Attribute(Name("enum"),
         "IntFlag")>>, <<Assign(<<Name("R")>>, Num("1"))>>)],
       [src |-> "class Multi(Base, StrEnum): M = 'm'", node |-> ClassDef("Multi", <<Name("Base"),
         Name("StrEnum")>>, <<Assign(<<Name("M")>>, Str("m"))>>)],
       [src |-> "class Deep:\n    def bad(self, p=1, /): return 0\n    def ok(self): return 1",
         node |-> ClassDef("Deep", <<>>, <<FunctionDef("bad", Arguments(<<Arg("self", NoNode),
         Arg("p", NoNode)>>, <<>>, NoNode, <<>>, <<>>, NoNode, <<Num("1")>>),
         <<Return(Num("0"))>>, <<>>, NoNode), FunctionDef("ok", Arguments(<<>>, <<Arg("self",
         NoNode)>>, NoNode, <<>>, <<>>, NoNode, <<>>), <<Return(Num("1"))>>, <<>>, NoNode)>>)],
       [src |-> "def zeta(): return 1", node |-> FunctionDef("zeta", Arguments(<<>>, <<>>, NoNode,
         <<>>, <<>>, NoNode, <<>>), <<Return(Num("1"))>>, <<>>, NoNode)],
       [src |-> "def Alpha(): pass", node |-> FunctionDef("Alpha", Arguments(<<>>, <<>>, NoNode, <<>>,
         <<>>, NoNode, <<>>), <<Pass>>, <<>>, NoNode)],
       [src |-> "def _b(): return 3", node |-> FunctionDef("_b", Arguments(<<>>, <<>>, NoNode, <<>>,
         <<>>, NoNode, <<>>), <<Return(Num("3"))>>, <<>>, NoNode)],
       [src |-> "def _A(): return 4", node |-> FunctionDef("_A", Arguments(<<>>, <<>>, NoNode, <<>>,
         <<>>, NoNode, <<>>), <<Return(Num("4"))>>, <<>>, NoNode)],
       [src |-> "async def beta(): return 5", node |-> AsyncFunctionDef("beta", Arguments(<<>>, <<>>,
         NoNode, <<>>, <<>>, NoNode, <<>>), <<Return(Num("5"))>>, <<>>, NoNode)],
       [src |-> "def bad(p=1, /): return 0", node |-> FunctionDef("bad", Arguments(<<Arg("p",
         NoNode)>>, <<>>, NoNode, <<>>, <<>>, NoNode, <<Num("1")>>), <<Return(Num("0"))>>,
         <<>>, NoNode)],
       [src |-> "MAX_RETRIES = 3", node |-> Assign(<<Name("MAX_RETRIES")>>, Num("3"))],
       [src |-> "EDGE = " \o Ones(ConstantValueLimit), node |-> Assign(<<Name("EDGE")>>,
         Num(Ones(ConstantValueLimit)))],
       [src |-> "OVER = " \o Ones(ConstantValueLimit + 1), node |-> Assign(<<Name("OVER")>>,
         Num(Ones(ConstantValueLimit + 1)))],
       [src |-> "BIG = " \o SumSrc(LongTerms), node |-> Assign(<<Name("BIG")>>, Sum(LongTerms))] >>

DeclarationSources == {Declarations[i].src : i \in DOMAIN Declarations}

(***************************************************************************)
(* Guards: files with an "if" at the top level or below it, whose test     *)
(* does or does not compare __name__ with "__main__", and whose body holds *)
(* up to six statements, some as long as the limit on a line of the block. *)
(***************************************************************************)

Guards ==
    << [src |-> "if __name__ == \"__main__\": main()", node |-> If(Compare(Name("__name__"), "==",
         Str("__main__")), <<Expr(Call(Name("main"), <<>>))>>, <<>>)],
       [src |-> "if __name__ == \"__main__\":\n    a()\n    b()\n    c()\n    d()\n    e()\n    f()",
         node |-> If(Compare(Name("__name__"), "==", Str("__main__")), <<Expr(Call(Name("a"),
         <<>>)), Expr(Call(Name("b"), <<>>)), Expr(Call(Name("c"), <<>>)), Expr(Call(Name("d"),
         <<>>)), Expr(Call(Name("e"), <<>>)), Expr(Call(Name("f"), <<>>))>>, <<>>)],
       [src |-> "if __name__ == \"__main__\":\n    first()\n    " \o Ones(MainLineLimit - 1) \o "\n    last()",
         node |-> If(Compare(Name("__name__"), "==", Str("__main__")),
         <<Expr(Call(Name("first"), <<>>)), Expr(Num(Ones(MainLineLimit - 1))),
         Expr(Call(Name("last"), <<>>))>>, <<>>)],
       [src |-> "if __name__ == \"__main__\":\n    first()\n    " \o Ones(MainLineLimit) \o "\n    last()",
         node |-> If(Compare(Name("__name__"), "==", Str("__main__")),
         <<Expr(Call(Name("first"), <<>>)), Expr(Num(Ones(MainLineLimit))),
         Expr(Call(Name("last"), <<>>))>>, <<>>)],
       [src |-> "if __name__ == \"__main__\": " \o Ones(MainLineLimit + 1),
         node |-> If(Compare(Name("__name__"), "==", Str("__main__")),
         <<Expr(Num(Ones(MainLineLimit + 1)))>>, <<>>)],
       [src |-> "if \"__main__\" == __name__: run()", node |-> If(Compare(Str("__main__"), "==",
         Name("__name__")), <<Expr(Call(Name("run"), <<>>))>>, <<>>)],
       [src |-> "if x == 1: other()", node |-> If(Compare(Name("x"), "==", Num("1")),
         <<Expr(Call(Name("other"), <<>>))>>, <<>>)],
       [src |-> "if main(__name__, \"__main__\"): go()", node |-> If(Call(Name("main"),
         <<Name("__name__"), Str("__main__")>>), <<Expr(Call(Name("go"), <<>>))>>, <<>>)],
       [src |-> "def f():\n    if __name__ == \"__main__\": hidden()", node |-> FunctionDef("f",
         Arguments(<<>>, <<>>, NoNode, <<>>, <<>>, NoNode, <<>>),
         <<If(Compare(Name("__name__"), "==", Str("__main__")), <<Expr(Call(Name("hidden"),
         <<>>))>>, <<>>)>>, <<>>, NoNode)],
       [src |-> "if __name__ != \"__main__\": skip()", node |-> If(Compare(Name("__name__"), "!=",
         Str("__main__")), <<Expr(Call(Name("skip"), <<>>))>>, <<>>)],
       [src |-> "if __name__ == \"__main__\":\n    args = parse()\n    main(args)\n    pass",
         node |-> If(Compare(Name("__name__"), "==", Str("__main__")),
         <<Assign(<<Name("args")>>, Call(Name("parse"), <<>>)), Expr(Call(Name("main"),
         <<Name("args")>>)), Pass>>, <<>>)],
       [src |-> "if __name__ == \"__main__\": a()\nelse: b()", node |-> If(Compare(Name("__name__"),
         "==", Str("__main__")), <<Expr(Call(Name("a"), <<>>))>>, <<Expr(Call(Name("b"),
         <<>>))>>)] >>

GuardSources == {Guards[i].src : i \in DOMAIN Guards}

(***************************************************************************)
(* Failing: files with one declaration of each kind that ast.unparse       *)
(* cannot render, a sum nested more deeply than the limit.  Each comes     *)
(* with its twin, the same text with 0 in the place of the sum, and, for a *)
(* declaration below the top level, with the text without the declaration. *)
(***************************************************************************)

Failing ==
    << [src |-> "DEEP_CONST = " \o SumSrc(DeepTerms), node |-> Assign(<<Name("DEEP_CONST")>>,
         Sum(DeepTerms)), twin |-> "DEEP_CONST = 0", without |-> NoneStr],
       [src |-> "DeepAlias: int = " \o SumSrc(DeepTerms), node |-> AnnAssign(Name("DeepAlias"),
         Name("int"), Sum(DeepTerms)), twin |-> "DeepAlias: int = 0", without |-> NoneStr],
       [src |-> "@deco(" \o SumSrc(DeepTerms) \o ")\ndef deep_func(): return 1",
         node |-> FunctionDef("deep_func", Arguments(<<>>, <<>>, NoNode, <<>>, <<>>, NoNode,
         <<>>), <<Return(Num("1"))>>, <<Call(Name("deco"), <<Sum(DeepTerms)>>)>>, NoNode),
         twin |-> "@deco(0)\ndef deep_func(): return 1", without |-> NoneStr],
       [src |-> "class Host:\n    @deco(" \o SumSrc(DeepTerms) \o ")\n    def deep_method(self): return 1\n    def ok(self): return 2",
         node |-> ClassDef("Host", <<>>, <<FunctionDef("deep_method", Arguments(<<>>,
         <<Arg("self", NoNode)>>, NoNode, <<>>, <<>>, NoNode, <<>>), <<Return(Num("1"))>>,
         <<Call(Name("deco"), <<Sum(DeepTerms)>>)>>, NoNode), FunctionDef("ok", Arguments(<<>>,
         <<Arg("self", NoNode)>>, NoNode, <<>>, <<>>, NoNode, <<>>), <<Return(Num("2"))>>,
         <<>>, NoNode)>>),
         twin |-> "class Host:\n    @deco(0)\n    def deep_method(self): return 1\n    def ok(self): return 2",
         without |-> "class Host:\n    def ok(self): return 2"],
       [src |-> "class Holder:\n    deep_attr = " \o SumSrc(DeepTerms) \o "\n    fine = 1",
         node |-> ClassDef("Holder", <<>>, <<Assign(<<Name("deep_attr")>>, Sum(DeepTerms)),
         Assign(<<Name("fine")>>, Num("1"))>>),
         twin |-> "class Holder:\n    deep_attr = 0\n    fine = 1",
         without |-> "class Holder:\n    fine = 1"],
       [src |-> "class DeepError(make(" \o SumSrc(DeepTerms) \o ")):\n    code = 1",
         node |-> ClassDef("DeepError", <<Call(Name("make"), <<Sum(DeepTerms)>>)>>,
         <<Assign(<<Name("code")>>, Num("1"))>>),
         twin |-> "class DeepError(make(0)):\n    code = 1", without |-> NoneStr],
       [src |-> "class Shade(Enum):\n    DARK = " \o SumSrc(DeepTerms) \o "\n    LIGHT = 1",
         node |-> ClassDef("Shade", <<Name("Enum")>>, <<Assign(<<Name("DARK")>>,
         Sum(DeepTerms)), Assign(<<Name("LIGHT")>>, Num("1"))>>),
         twin |-> "class Shade(Enum):\n    DARK = 0\n    LIGHT = 1",
         without |-> "class Shade(Enum):\n    LIGHT = 1"],
       [src |-> "if __name__ == \"__main__\":\n    setup()\n    " \o SumSrc(DeepTerms) \o "\n    run()",
         node |-> If(Compare(Name("__name__"), "==", Str("__main__")),
         <<Expr(Call(Name("setup"), <<>>)), Expr(Sum(DeepTerms)), Expr(Call(Name("run"),
         <<>>))>>, <<>>),
         twin |-> "if __name__ == \"__main__\":\n    setup()\n    0\n    run()",
         without |-> "if __name__ == \"__main__\":\n    setup()\n    run()"],
       [src |-> "if __name__ == \"__main__\":\n    a()\n    " \o SumSrc(DeepTerms) \o "\n    c()\n    d()\n    e()\n    f()",
         node |-> If(Compare(Name("__name__"), "==", Str("__main__")), <<Expr(Call(Name("a"),
         <<>>)), Expr(Sum(DeepTerms)), Expr(Call(Name("c"), <<>>)), Expr(Call(Name("d"),
         <<>>)), Expr(Call(Name("e"), <<>>)), Expr(Call(Name("f"), <<>>))>>, <<>>),
         twin |-> "if __name__ == \"__main__\":\n    a()\n    0\n    c()\n    d()\n    e()\n    f()",
         without |-> "if __name__ == \"__main__\":\n    a()\n    c()\n    d()\n    e()\n    f()"],
       [src |-> "if __name__ == \"__main__\": " \o SumSrc(DeepTerms),
         node |-> If(Compare(Name("__name__"), "==", Str("__main__")),
         <<Expr(Sum(DeepTerms))>>, <<>>), twin |-> "if __name__ == \"__main__\": 0",
         without |-> NoneStr] >>

\* the same files with 0 in the place of the sum: every declaration renders
Rendering ==
    << [src |-> "DEEP_CONST = 0", node |-> Assign(<<Name("DEEP_CONST")>>, Num("0"))],
       [src |-> "DeepAlias: int = 0", node |-> AnnAssign(Name("DeepAlias"), Name("int"), Num("0"))],
       [src |-> "@deco(0)\ndef deep_func(): return 1", node |-> FunctionDef("deep_func",
         Arguments(<<>>, <<>>, NoNode, <<>>, <<>>, NoNode, <<>>), <<Return(Num("1"))>>,
         <<Call(Name("deco"), <<Num("0")>>)>>, NoNode)],
       [src |-> "class Host:\n    @deco(0)\n    def deep_method(self): return 1\n    def ok(self): return 2",
         node |-> ClassDef("Host", <<>>, <<FunctionDef("deep_method", Arguments(<<>>,
         <<Arg("self", NoNode)>>, NoNode, <<>>, <<>>, NoNode, <<>>), <<Return(Num("1"))>>,
         <<Call(Name("deco"), <<Num("0")>>)>>, NoNode), FunctionDef("ok", Arguments(<<>>,
         <<Arg("self", NoNode)>>, NoNode, <<>>, <<>>, NoNode, <<>>), <<Return(Num("2"))>>,
         <<>>, NoNode)>>)],
       [src |-> "class Holder:\n    deep_attr = 0\n    fine = 1", node |-> ClassDef("Holder", <<>>,
         <<Assign(<<Name("deep_attr")>>, Num("0")), Assign(<<Name("fine")>>, Num("1"))>>)],
       [src |-> "class DeepError(make(0)):\n    code = 1", node |-> ClassDef("DeepError",
         <<Call(Name("make"), <<Num("0")>>)>>, <<Assign(<<Name("code")>>, Num("1"))>>)],
       [src |-> "class Shade(Enum):\n    DARK = 0\n    LIGHT = 1", node |-> ClassDef("Shade",
         <<Name("Enum")>>, <<Assign(<<Name("DARK")>>, Num("0")), Assign(<<Name("LIGHT")>>,
         Num("1"))>>)],
       [src |-> "if __name__ == \"__main__\":\n    setup()\n    0\n    run()",
         node |-> If(Compare(Name("__name__"), "==", Str("__main__")),
         <<Expr(Call(Name("setup"), <<>>)), Expr(Num("0")), Expr(Call(Name("run"), <<>>))>>,
         <<>>)],
       [src |-> "if __name__ == \"__main__\":\n    a()\n    0\n    c()\n    d()\n    e()\n    f()",
         node |-> If(Compare(Name("__name__"), "==", Str("__main__")), <<Expr(Call(Name("a"),
         <<>>)), Expr(Num("0")), Expr(Call(Name("c"), <<>>)), Expr(Call(Name("d"), <<>>)),
         Expr(Call(Name("e"), <<>>)), Expr(Call(Name("f"), <<>>))>>, <<>>)],
       [src |-> "if __name__ == \"__main__\": 0", node |-> If(Compare(Name("__name__"), "==",
         Str("__main__")), <<Expr(Num("0"))>>, <<>>)] >>

\* the files of declarations below the top level, without the declaration
\* that fails
Remaining ==
    << [src |-> "class Host:\n    def ok(self): return 2", node |-> ClassDef("Host", <<>>,
         <<FunctionDef("ok", Arguments(<<>>, <<Arg("self", NoNode)>>, NoNode, <<>>, <<>>,
         NoNode, <<>>), <<Return(Num("2"))>>, <<>>, NoNode)>>)],
       [src |-> "class Holder:\n    fine = 1", node |-> ClassDef("Holder", <<>>,
         <<Assign(<<Name("fine")>>, Num("1"))>>)],
       [src |-> "class Shade(Enum):\n    LIGHT = 1", node |-> ClassDef("Shade", <<Name("Enum")>>,
         <<Assign(<<Name("LIGHT")>>, Num("1"))>>)],
       [src |-> "if __name__ == \"__main__\":\n    setup()\n    run()",
         node |-> If(Compare(Name("__name__"), "==", Str("__main__")),
         <<Expr(Call(Name("setup"), <<>>)), Expr(Call(Name("run"), <<>>))>>, <<>>)],
       [src |-> "if __name__ == \"__main__\":\n    a()\n    c()\n    d()\n    e()\n    f()",
         node |-> If(Compare(Name("__name__"), "==", Str("__main__")), <<Expr(Call(Name("a"),
         <<>>)), Expr(Call(Name("c"), <<>>)), Expr(Call(Name("d"), <<>>)), Expr(Call(Name("e"),
         <<>>)), Expr(Call(Name("f"), <<>>))>>, <<>>)] >>

FailingSources == {Failing[i].src : i \in DOMAIN Failing}

RenderingSources == {Rendering[i].src : i \in DOMAIN Rendering}

RemainingSources == {Remaining[i].src : i \in DOMAIN Remaining}

(***************************************************************************)
(* ast.parse: the Module whose body holds the trees of the chunks, and a   *)
(* SyntaxError when a chunk is not valid Python.                           *)
(***************************************************************************)

IsValidChunk(src) ==
    \/ src \in CatalogueSources
    \/ src \in DeclarationSources
    \/ src \in GuardSources
    \/ src \in FailingSources
    \/ src \in RenderingSources
    \/ src \in RemainingSources
    \/ src \in SigSources

NodeOf(src) ==
    IF src \in CatalogueSources
    THEN Catalogue[CHOOSE i \in DOMAIN Catalogue : Catalogue[i].src = src].node
    ELSE IF src \in DeclarationSources
    THEN Declarations[CHOOSE i \in DOMAIN Declarations : Declarations[i].src = src].node
    ELSE IF src \in GuardSources
    THEN Guards[CHOOSE i \in DOMAIN Guards : Guards[i].src = src].node
    ELSE IF src \in FailingSources
    THEN Failing[CHOOSE i \in DOMAIN Failing : Failing[i].src = src].node
    ELSE IF src \in RenderingSources
    THEN Rendering[CHOOSE i \in DOMAIN Rendering : Rendering[i].src = src].node
    ELSE IF src \in RemainingSources
    THEN Remaining[CHOOSE i \in DOMAIN Remaining : Remaining[i].src = src].node
    ELSE (CHOOSE e \in SigFamily : e.src = src).node

RaisesSyntaxError(chunks) == \E i \in 1..Len(chunks) : ~IsValidChunk(chunks[i])

RECURSIVE BodyOf(_)
BodyOf(chunks) ==
    IF Len(chunks) = 0 THEN <<>>
    ELSE (IF NodeOf(Head(chunks)) = Blank THEN <<>> ELSE <<NodeOf(Head(chunks))>>)
         \o BodyOf(Tail(chunks))

ast_parse(chunks) == [type |-> "Module", body |-> BodyOf(chunks)]

\* the file's text
ContentOf(chunks) == Join(chunks, "\n")

\* file_path.name
PathName(path) == path[Len(path)]

\* get_relative_path: the path below the repository root, as a string
get_relative_path(path) == Join(path, "/")

\* "Skip empty or very small files"
MinContentLength == 10

\* a variant of the size test that measures the text as read
TooSmallUnstripped(chunks) == Len(ContentOf(chunks)) < MinContentLength

\* len(content.strip()) < 10
TooSmall(chunks) == Len(Strip(ContentOf(chunks))) < MinContentLength

\* a variant in which the SyntaxError leaves the call
SyntaxErrorPropagates == [raised |-> "SyntaxError"]

\* "except SyntaxError: return None"
OnSyntaxError == None

\* a variant that does not count a docstring or other expression statement
\* as content either
OnlyImportsOrExpressions(tree) ==
    \A i \in 1..Len(tree.body) : IsImport(tree.body[i]) \/ tree.body[i].type = "Expr"

\* for node in tree.body: if not isinstance(node, (ast.Import, ast.ImportFrom)):
\* has_content = True -- no top-level statement but imports
OnlyImports(tree) == \A i \in 1..Len(tree.body) : IsImport(tree.body[i])

\* a variant that skips an import-only file whatever its name
IsBareModule(path, tree) == OnlyImports(tree)

\* "Skip __init__.py files that only have imports or are empty"
IsBareInit(path, tree) == PathName(path) = "__init__.py" /\ OnlyImports(tree)

\* the analysis dict of a parsed file, as returned
Analysis(path, tree) ==
    LET body == tree.body
    IN  [path |-> get_relative_path(path),
         imports |-> RemoveDuplicates(ExtractImports(tree)),
         classes |-> ExtractClasses(tree),
         functions |-> SortPublicFirst(
             Flatten([i \in 1..Len(body) |-> FunctionEntries(body[i])])),
         constants |-> Flatten([i \in 1..Len(body) |-> ConstantEntries(body[i])]),
         enums |-> Flatten([i \in 1..Len(body) |-> EnumEntries(body[i])]),
         exceptions |-> Flatten([i \in 1..Len(body) |-> ExceptionEntries(body[i])]),
         type_aliases |-> Flatten([i \in 1..Len(body) |-> TypeAliasEntries(body[i])]),
         module_docstring |-> extract_docstring(tree),
         main_block |-> MainBlockFrom(body, 1, NoneStr)]

\* analyze_python_file(file_path, repo_path), for a file whose text is the
\* chunks (read_file_safe returns None when the file is not readable)
analyze_python_file(path, is_readable, chunks) ==
    IF ~is_readable THEN None
    ELSE IF TooSmall(chunks) THEN None
    ELSE IF RaisesSyntaxError(chunks) THEN OnSyntaxError
    ELSE IF IsBareInit(path, ast_parse(chunks)) THEN None
    ELSE Analysis(path, ast_parse(chunks))

(***************************************************************************)
(* cloner.py: the GitHub URLs the tool accepts and the form it clones from. *)
(***************************************************************************)

\* the ways a URL of the model starts; the first three are those of
\* github_patterns
UrlPrefixes == {"https://github.com/", "git@github.com:", "github.com/", "http://github.com/"}

\* [\w\.-]: a character of an owner's or a repository's name
IsNameChar(c) == Contains(CodePoints, c) \/ c = "." \/ c = "-"

\* [\w\.-]+
IsName(s) == Len(s) > 0 /\ \A i \in 1..Len(s) : IsNameChar(CharAt(s, i))

\* [\w\.-]+/[\w\.-]+(?:\.git)?/?$ -- the optional ".git" accepts nothing the
\* second name does not: its characters are characters of a name
MatchesOwnerAndRepo(rest) ==
    LET body == IF Len(rest) > 0 /\ CharAt(rest, Len(rest)) = "/"
                THEN SubSeq(rest, 1, Len(rest) - 1) ELSE rest
        at == IndexIn(body, "/")
    IN  /\ at > 1
        /\ at < Len(body)
        /\ IsName(SubSeq(body, 1, at - 1))
        /\ IsName(SubSeq(body, at + 1, Len(body)))

\* re.match(pattern, url) for one of github_patterns
MatchesPattern(url, prefix) ==
    /\ StartsWith(url, prefix)
    /\ MatchesOwnerAndRepo(SubSeq(url, Len(prefix) + 1, Len(url)))

validate_github_url(url) ==
    \/ MatchesPattern(url, "https://github.com/")
    \/ MatchesPattern(url, "git@github.com:")
    \/ MatchesPattern(url, "github.com/")

\* s.rstrip(chars): s without the trailing characters that occur in chars
RECURSIVE RStripChars(_, _)
RStripChars(s, chars) ==
    IF Len(s) > 0 /\ Contains(chars, CharAt(s, Len(s)))
    THEN RStripChars(SubSeq(s, 1, Len(s) - 1), chars)
    ELSE s

\* s.replace(old, new): every occurrence, from the left
RECURSIVE Replace(_, _, _)
Replace(s, old, new) ==
    IF Len(s) = 0 THEN ""
    ELSE IF StartsWith(s, old)
    THEN new \o Replace(SubSeq(s, Len(old) + 1, Len(s)), old, new)
    ELSE CharAt(s, 1) \o Replace(SubSeq(s, 2, Len(s)), old, new)

\* url.rstrip('/').rstrip('.git')
StripGitSuffix(url) == RStripChars(RStripChars(url, "/"), ".git")

normalize_github_url(url) ==
    LET stripped == StripGitSuffix(url)
        https == IF StartsWith(stripped, "git@github.com:")
                 THEN Replace(stripped, "git@github.com:", "https://github.com/")
                 ELSE stripped
        hosted == IF StartsWith(https, "github.com/") THEN "https://" \o https ELSE https
    IN  IF ~StartsWith(hosted, "https://") THEN "https://" \o hosted ELSE hosted

(***************************************************************************)
(* cli.py: one run of main.  The run is a walk over the places of main;     *)
(* what the environment does at a place (the clone, the file system, the    *)
(* user's answer) is the outcome of the step taken there.                   *)
(***************************************************************************)

\* the names extractor.py binds at module level: its imports from .utils and
\* its own functions
ExtractorNames ==
    {"find_directories", "find_files_by_pattern", "get_files_in_directories",
     "get_relative_path", "read_file_safe",
     "extract_readme", "extract_config_files", "extract_example_files",
     "extract_directory_structure", "extract_all_content"}

\* a call of the global name: NameError unless the module binds it
CallGlobal(name, outcome) ==
    IF name \in ExtractorNames THEN outcome ELSE "NameError"

\* the dictionary's values are computed in order; the first that raises
\* ends the call
extract_directory_structure(outcome) == CallGlobal("get_directory_tree", outcome)

extract_all_content(outcome) ==
    IF outcome # "ok" THEN outcome ELSE extract_directory_structure(outcome)

\* the statements of main inside "with temporary_directory() as temp_dir"
BlockSteps == {"clone", "info", "extract", "analyze", "generate", "write"}

\* a context manager without the finally clause
KeepDirectory(dir) == dir

\* the finally clause of temporary_directory, run however the block is left:
\* "none" is a directory that was never made, "exists" one that is there,
\* "removed" one that is gone.  shutil.rmtree is taken to remove the tree.
temporary_directory_exit(dir) == IF dir = "exists" THEN "removed" ELSE dir

\* an exception (SystemExit, KeyboardInterrupt or any other) raised at a
\* place of main: it leaves the block if the place is in it, and each of
\* main's handlers ends in sys.exit(1)
RaiseAt(m) ==
    [m EXCEPT !.pc = "done",
              !.exit_status = 1,
              !.temp_dir = IF m.pc \in BlockSteps \cup {"enter"}
                           THEN temporary_directory_exit(m.temp_dir)
                           ELSE m.temp_dir]

\* the output path main settles on, from the option -o or from the prompt:
\* a path that exists is replaced once, by one made of the user's next
\* answer, and that one is not looked up.  "new" is a path that does not
\* exist, "existing" one that does.
output_path(outcome) ==
    IF outcome = "exists, new name exists" THEN "existing" ELSE "new"

\* what the environment may do at a place
Outcomes(pc) ==
    CASE pc = "start" -> {"ok"}
      [] pc = "output" -> {"free", "exists, new name free", "exists, new name exists"}
      [] pc = "enter" -> {"ok", "OSError"}
      [] pc = "clone" -> {"ok", "GitCommandError", "Exception"}
      [] pc = "summary" -> {"ok"}
      [] OTHER -> {"ok", "Exception"}

\* one step of main from the place m.pc, with the environment's outcome
main_step(m, url, outcome) ==
    CASE m.pc = "start" ->
            IF validate_github_url(url) THEN [m EXCEPT !.pc = "output"] ELSE RaiseAt(m)
      [] m.pc = "output" -> [m EXCEPT !.pc = "enter", !.output_path = output_path(outcome)]
      [] m.pc = "enter" ->
            IF outcome = "ok" THEN [m EXCEPT !.pc = "clone", !.temp_dir = "exists"]
            ELSE RaiseAt(m)
      [] m.pc = "clone" ->
            IF outcome = "ok" THEN [m EXCEPT !.pc = "info"] ELSE RaiseAt(m)
      [] m.pc = "info" ->
            IF outcome = "ok" THEN [m EXCEPT !.pc = "extract"] ELSE RaiseAt(m)
      [] m.pc = "extract" ->
            IF extract_all_content(outcome) = "ok" THEN [m EXCEPT !.pc = "analyze"]
            ELSE RaiseAt(m)
      [] m.pc = "analyze" ->
            [m EXCEPT !.pc = "generate",
                      !.python_analyses = IF outcome = "ok" THEN "analyzed" ELSE "empty"]
      [] m.pc = "generate" ->
            IF outcome = "ok" THEN [m EXCEPT !.pc = "write"] ELSE RaiseAt(m)
      [] m.pc = "write" ->
            IF outcome = "ok"
            THEN [m EXCEPT !.pc = "summary",
                           !.output_written = TRUE,
                           !.temp_dir = temporary_directory_exit(m.temp_dir)]
            ELSE RaiseAt(m)
      [] m.pc = "summary" -> [m EXCEPT !.pc = "done"]

(***************************************************************************)
(* extractor.py and the walks of utils.py.  A repository is its files:     *)
(* repo_path maps the path of each file, below the root and by component,  *)
(* to the file's content.  Its directories are those that hold a file.     *)
(***************************************************************************)

\* the content of a file that holds a NUL byte: is_binary_file is true of it
Binary == "<NUL>"

\* README file patterns (in priority order)
README_PATTERNS ==
    <<"README.md", "README.txt", "README.rst", "README", "readme.md", "readme.txt">>

\* Example directory names
EXAMPLE_DIR_NAMES ==
    <<"examples", "example", "demo", "demos", "samples", "sample", "test", "tests",
      "tutorial", "tutorials">>

\* exclude_dirs of find_files_by_pattern when none is given
FilesExcludeDirs ==
    {"__pycache__", ".git", ".venv", "venv", "env", "node_modules", ".pytest_cache",
     "test", "tests", "__tests__"}

\* exclude_dirs of find_directories when none is given
DirectoriesExcludeDirs ==
    {"__pycache__", ".git", ".venv", "venv", "env", "node_modules", "test", "tests",
     "__tests__"}

\* the names of the model's files and directories, in the order of Python's
\* strings (by code point)
NameOrder ==
    <<"README", "README.md", "README.txt", "b.py", "d.txt", "demo", "demos", "docs",
      "example", "examples", "node_modules", "readme.md", "run.py", "sample", "samples",
      "src", "test", "tests", "tutorial", "tutorials", "x.js">>

Rank(name) == CHOOSE i \in 1..Len(NameOrder) : NameOrder[i] = name

\* p < q for two paths: by component, a path before those it is a prefix of
RECURSIVE PathLess(_, _)
PathLess(p, q) ==
    IF Len(q) = 0 THEN FALSE
    ELSE IF Len(p) = 0 THEN TRUE
    ELSE IF Head(p) = Head(q) THEN PathLess(Tail(p), Tail(q))
    ELSE Rank(Head(p)) < Rank(Head(q))

\* sorted(paths), for a list that may hold a path more than once
RECURSIVE Sorted(_)
Sorted(paths) ==
    IF Len(paths) = 0 THEN <<>>
    ELSE LET least == CHOOSE i \in 1..Len(paths) :
                          \A j \in 1..Len(paths) : ~PathLess(paths[j], paths[i])
         IN  <<paths[least]>>
                 \o Sorted([k \in 1..(Len(paths) - 1) |->
                               IF k < least THEN paths[k] ELSE paths[k + 1]])

\* the paths of a set, in some order
RECURSIVE Listed(_)
Listed(S) ==
    IF S = {} THEN <<>>
    ELSE LET p == CHOOSE x \in S : TRUE IN <<p>> \o Listed(S \ {p})

Parent(path) == SubSeq(path, 1, Len(path) - 1)

IsBelow(path, directory) ==
    /\ Len(path) > Len(directory)
    /\ SubSeq(path, 1, Len(directory)) = directory

(***************************************************************************)
(* The state: one file of the repository and what the calls of             *)
(* analyze_python_file on it have returned.                                *)
(***************************************************************************)

VARIABLES
    file_path,   \* the file's path below the repository root, by component
    readable,    \* whether read_file_safe can read it
    chunks,      \* its text
    results,     \* what each call so far returned, in order
    inputs,      \* the file each call so far was made on, in order
    github_url,  \* the URL given to the tool
    normalized,  \* what normalize_github_url returned for it, once called
    run,         \* main's place, the temporary directory, the exit status
    steps,       \* the steps main took, in order, each with its outcome
    repo_path,   \* the files of the cloned repository, each with its content
    extracted    \* what extract_readme and extract_example_files returned

file == <<file_path, readable, chunks>>

vars ==
    <<file_path, readable, chunks, results, inputs, github_url, normalized, run, steps,
      repo_path, extracted>>

\* the files of the repository
Files == DOMAIN repo_path

\* its directories, the root (the empty path) among them
Directories == UNION {{SubSeq(p, 1, k) : k \in 0..(Len(p) - 1)} : p \in Files} \cup {<<>>}

\* the directories os.walk comes to from the root when the names of
\* exclude_dirs are taken out of dirs at each directory
Walked(exclude_dirs) ==
    {d \in Directories : \A i \in 1..Len(d) : d[i] \notin exclude_dirs}

\* file_path.match(pattern) or file == pattern, for a pattern that is a
\* plain file name
Matches(name, pattern) == name = pattern

\* find_files_by_pattern(repo_path, patterns)
find_files_by_pattern(patterns) ==
    Sorted(Listed({p \in Files :
        /\ Parent(p) \in Walked(FilesExcludeDirs)
        /\ \E k \in 1..Len(patterns) : Matches(PathName(p), patterns[k])}))

\* find_directories(repo_path, dir_names): at each directory of the walk,
\* dirs without the excluded names, then the names of dir_names among dirs
find_directories(dir_names) ==
    Sorted(Listed({d \in Directories \ {<<>>} :
        /\ Parent(d) \in Walked(DirectoriesExcludeDirs)
        /\ PathName(d) \notin DirectoriesExcludeDirs
        /\ \E k \in 1..Len(dir_names) : dir_names[k] = PathName(d)}))

\* get_files_in_directories(directories): the files below each directory of
\* the list, one list after the other, then sorted
get_files_in_directories(directories) ==
    Sorted(Flatten([i \in 1..Len(directories) |->
        Listed({p \in Files : IsBelow(p, directories[i])})]))

\* read_file_safe: None for a binary file
read_file_safe(path) == IF repo_path[path] = Binary THEN NoneStr ELSE repo_path[path]

\* extract_readme from the k-th pattern on
RECURSIVE ReadmeFrom(_)
ReadmeFrom(k) ==
    IF k > Len(README_PATTERNS) THEN None
    ELSE LET readme_files == find_files_by_pattern(<<README_PATTERNS[k]>>)
         IN  IF readme_files # <<>> /\ read_file_safe(readme_files[1]) \notin {NoneStr, ""}
             THEN [path |-> get_relative_path(readme_files[1]),
                   content |-> read_file_safe(readme_files[1])]
             ELSE ReadmeFrom(k + 1)

extract_readme == ReadmeFrom(1)

IsReadable(path) == read_file_safe(path) # NoneStr

extract_example_files ==
    LET example_dirs == find_directories(EXAMPLE_DIR_NAMES)
        all_example_files == SelectSeq(get_files_in_directories(example_dirs), IsReadable)
    IN  [i \in 1..Len(all_example_files) |->
            [path |-> get_relative_path(all_example_files[i]),
             content |-> read_file_safe(all_example_files[i])]]

\* the paths a file of the model may have
CandidatePaths ==
    {<<"README.md">>, <<"docs", "README.md">>, <<"README.txt">>, <<"readme.md">>,
     <<"tests", "README.md">>, <<"README">>,
     <<"examples", "demo", "b.py">>, <<"src", "samples", "d.txt">>,
     <<"node_modules", "examples", "x.js">>}
    \cup {<<EXAMPLE_DIR_NAMES[k], "run.py">> : k \in 1..Len(EXAMPLE_DIR_NAMES)}

\* what a file may hold: nothing, a text, a NUL byte
Contents == {"", "# Title", Binary}

\* how many files a repository holds at most
MaxFiles == 2

\* the repositories of the model
Repositories ==
    UNION {[S -> Contents] : S \in {T \in SUBSET CandidatePaths : Cardinality(T) <= MaxFiles}}

\* no repository at hand
NoRepo == repo_path = <<>> /\ extracted = [readme_called |-> FALSE, readme |-> None,
                                      examples_called |-> FALSE, example_files |-> <<>>]

\* the files of the model
Paths == {<<"pkg", "__init__.py">>, <<"pkg", "utils.py">>}

\* how many chunks a file holds at most
MaxChunks == 2

\* how often the file is analyzed at most
MaxCalls == 2

\* how many calls a walk over several files makes at most
MaxSeqCalls == 3

RECURSIVE SeqsUpTo(_, _)
SeqsUpTo(S, n) ==
    IF n = 0 THEN {<<>>}
    ELSE LET shorter == SeqsUpTo(S, n - 1)
         IN  shorter \cup {Append(s, x) : s \in {q \in shorter : Len(q) = n - 1}, x \in S}

\* the URLs of the model: a prefix, an owner, a repository, with or without
\* ".git" and a trailing "/"
Owners == {"user", "a.b"}

Repos == {"repo", "agent-context", "tig", "my_lib", "r.py"}

GithubUrls ==
    {prefix \o owner \o "/" \o repo \o dot_git \o slash :
        prefix \in UrlPrefixes, owner \in Owners, repo \in Repos,
        dot_git \in {"", ".git"}, slash \in {"", "/"}}

\* main before it is called
NotStarted ==
    [pc |-> "idle", temp_dir |-> "none", exit_status |-> 0, output_written |-> FALSE,
     option |-> FALSE, output_path |-> "unset", python_analyses |-> "unset"]

\* main at its first statement
AtStart == [NotStarted EXCEPT !.pc = "start"]

\* no file to analyze
NoFile == file_path = <<>> /\ readable = FALSE /\ chunks = <<>>

\* no URL given
NoUrl == github_url = NoneStr

NothingDone == results = <<>> /\ inputs = <<>> /\ normalized = NoneStr /\ steps = <<>>

AFile(sources, n) ==
    /\ file_path \in Paths
    /\ \/ readable = TRUE /\ chunks \in SeqsUpTo(sources, n)
       \/ readable = FALSE /\ chunks = <<>>

InitFile(sources, n) ==
    /\ AFile(sources, n)
    /\ NoUrl
    /\ run = NotStarted
    /\ NothingDone
    /\ NoRepo

Init == InitFile(CatalogueSources \cup Malformed, MaxChunks)

InitSig == InitFile(SigSources, 1)

InitDecl == InitFile(DeclarationSources, MaxChunks)

InitGuard == InitFile(GuardSources, MaxChunks)

\* files of declarations that render, to stand beside those that fail
PlainSources == {"import os, sys", "MAX_RETRIES = 3", "if __name__ == \"__main__\": main()"}

InitFail == InitFile(FailingSources \cup PlainSources, MaxChunks)

\* the files of a walk over several files
SeqSources == {"import os, sys", "MAX_RETRIES = 3", "def broken(:"}

InitSeq == InitFile(SeqSources, 1)

InitUrl ==
    /\ github_url \in GithubUrls
    /\ NoFile
    /\ run = NotStarted
    /\ NothingDone
    /\ NoRepo

InitCli ==
    /\ github_url \in GithubUrls
    /\ NoFile
    /\ \E option \in BOOLEAN : run = [AtStart EXCEPT !.option = option]
    /\ NothingDone
    /\ NoRepo

InitRepo ==
    /\ NoFile
    /\ NoUrl
    /\ run = NotStarted
    /\ NothingDone
    /\ repo_path \in Repositories
    /\ extracted = [readme_called |-> FALSE, readme |-> None,
                    examples_called |-> FALSE, example_files |-> <<>>]

\* calls that hand the lists of the call before on to the next
AnalyzeSharingLists(limit) ==
    /\ Len(results) < limit
    /\ LET fresh == analyze_python_file(file_path, readable, chunks)
           last == IF results = <<>> THEN None ELSE results[Len(results)]
       IN  results' = Append(results,
                IF fresh = None \/ last = None THEN fresh
                ELSE [fresh EXCEPT !.constants = last.constants \o fresh.constants])
    /\ inputs' = Append(inputs, file)
    /\ UNCHANGED <<file_path, readable, chunks, github_url, normalized, run, steps, repo_path, extracted>>

\* one call of analyze_python_file on the file, of at most limit calls
AnalyzeUpTo(limit) ==
    /\ Len(results) < limit
    /\ results' = Append(results, analyze_python_file(file_path, readable, chunks))
    /\ inputs' = Append(inputs, file)
    /\ UNCHANGED <<file_path, readable, chunks, github_url, normalized, run, steps, repo_path, extracted>>

Analyze == AnalyzeUpTo(MaxCalls)

\* analyze_all_python_files goes on to another file of the repository
NextFile ==
    /\ Len(results) < MaxSeqCalls
    /\ inputs # <<>> /\ inputs[Len(inputs)] = file
    /\ file_path' \in Paths
    /\ \/ readable' = TRUE /\ chunks' \in SeqsUpTo(SeqSources, 1)
       \/ readable' = FALSE /\ chunks' = <<>>
    /\ file' # file
    /\ UNCHANGED <<results, inputs, github_url, normalized, run, steps, repo_path, extracted>>

AnalyzeNext == AnalyzeUpTo(MaxSeqCalls)

\* one call of normalize_github_url on the URL
Normalize ==
    /\ normalized = NoneStr
    /\ normalized' = normalize_github_url(github_url)
    /\ UNCHANGED <<file_path, readable, chunks, results, inputs, github_url, run, steps, repo_path, extracted>>

\* main takes its next step
Step ==
    /\ run.pc \notin {"idle", "done"}
    /\ \E outcome \in Outcomes(run.pc) :
          /\ run' = main_step(run, github_url, outcome)
          /\ steps' = Append(steps, [step |-> run.pc, outcome |-> outcome])
    /\ UNCHANGED <<file_path, readable, chunks, results, inputs, github_url, normalized, repo_path, extracted>>

\* the user presses Ctrl-C while main is at some place
Interrupt ==
    /\ run.pc \notin {"idle", "done"}
    /\ run' = RaiseAt(run)
    /\ steps' = Append(steps, [step |-> run.pc, outcome |-> "KeyboardInterrupt"])
    /\ UNCHANGED <<file_path, readable, chunks, results, inputs, github_url, normalized, repo_path, extracted>>

\* one call of extract_readme on the repository
ExtractReadme ==
    /\ ~extracted.readme_called
    /\ extracted' = [extracted EXCEPT !.readme_called = TRUE, !.readme = extract_readme]
    /\ UNCHANGED <<file_path, readable, chunks, results, inputs, github_url, normalized, run,
                   steps, repo_path>>

\* one call of extract_example_files on the repository
ExtractExampleFiles ==
    /\ ~extracted.examples_called
    /\ extracted' = [extracted EXCEPT !.examples_called = TRUE,
                                      !.example_files = extract_example_files]
    /\ UNCHANGED <<file_path, readable, chunks, results, inputs, github_url, normalized, run,
                   steps, repo_path>>

Next == Analyze

NextSeq == AnalyzeNext \/ NextFile

NextUrl == Normalize

NextCli == Step \/ Interrupt

NextRepo == ExtractReadme \/ ExtractExampleFiles

Spec == Init /\ [][Next]_vars

SpecSig == InitSig /\ [][Next]_vars

SpecDecl == InitDecl /\ [][Next]_vars

SpecGuard == InitGuard /\ [][Next]_vars

SpecFail == InitFail /\ [][Next]_vars

SpecSeq == InitSeq /\ [][NextSeq]_vars

SpecUrl == InitUrl /\ [][NextUrl]_vars

SpecCli == InitCli /\ [][NextCli]_vars

SpecRepo == InitRepo /\ [][NextRepo]_vars

(***************************************************************************)
(* Properties.  A call "returned a record" when its result is not None;    *)
(* a record is only ever returned for a file that parsed, so the file's    *)
(* top-level statements are then defined.                                  *)
(***************************************************************************)

\* the calls made so far
Calls == 1..Len(results)

\* the calls that returned a record
Records == {i \in Calls : results[i] # None}

\* the file's name is __init__.py
IsInitFile == PathName(file_path) = "__init__.py"

\* the file's text parses
Parses == readable /\ ~RaisesSyntaxError(chunks)

\* the top-level statements of a file that parses
TopLevel == BodyOf(chunks)

\* the position of the first occurrence of sub in s, 0 when there is none
RECURSIVE FindFrom(_, _, _)
FindFrom(s, sub, i) ==
    IF i + Len(sub) - 1 > Len(s) THEN 0
    ELSE IF SubSeq(s, i, i + Len(sub) - 1) = sub THEN i
    ELSE FindFrom(s, sub, i + 1)

Find(s, sub) == FindFrom(s, sub, 1)

\* the position of the last occurrence of the character c in s, 0 when none
RECURSIVE FindLast(_, _, _)
FindLast(s, c, i) ==
    IF i = 0 THEN 0
    ELSE IF CharAt(s, i) = c THEN i
    ELSE FindLast(s, c, i - 1)

\* s cut at every occurrence of sep
RECURSIVE Split(_, _)
Split(s, sep) ==
    LET at == Find(s, sep)
    IN  IF at = 0 THEN <<s>>
        ELSE <<SubSeq(s, 1, at - 1)>> \o Split(SubSeq(s, at + Len(sep), Len(s)), sep)

\* how often the character c occurs in s
CountChar(s, c) == Cardinality({i \in 1..Len(s) : CharAt(s, i) = c})

EndsWith(s, suffix) ==
    /\ Len(suffix) <= Len(s)
    /\ SubSeq(s, Len(s) - Len(suffix) + 1, Len(s)) = suffix

\* the entries between the parentheses of a rendered signature
ParamEntries(signature) ==
    LET open == Find(signature, "(")
        close == FindLast(signature, ")", Len(signature))
        inner == SubSeq(signature, open + 1, close - 1)
    IN  IF inner = "" THEN <<>> ELSE Split(inner, ", ")

\* the entries of a rendered signature that render the parameter called name
EntriesOf(signature, name) ==
    LET entries == ParamEntries(signature)
    IN  {i \in 1..Len(entries) :
            \/ entries[i] = name
            \/ StartsWith(entries[i], name \o ":")
            \/ StartsWith(entries[i], name \o "=")}

\* the positional parameters of a function definition, positional-only first
Positional(func_node) == func_node.args.posonlyargs \o func_node.args.args

\* the rendered signatures a record holds for the function called name
SignaturesOf(record, name) ==
    {record.functions[k].signature : k \in
        {k \in 1..Len(record.functions) : record.functions[k].name = name}}

\* C1: in every rendered signature of a top-level function with n positional
\* parameters (positional-only ones included) and d defaults, the parameter
\* at index i carries a default exactly when i >= n - d, that default is the
\* one written for it, and no parameter carries more than one "=<default>".
C1_DefaultsOnTrailingParameters ==
    \A r \in Records : \A s \in 1..Len(TopLevel) :
        IsFunction(TopLevel[s]) =>
            \A signature \in SignaturesOf(results[r], TopLevel[s].name) :
                LET params == Positional(TopLevel[s])
                    defaults == TopLevel[s].args.defaults
                    n == Len(params)
                    d == Len(defaults)
                    entries == ParamEntries(signature)
                IN  /\ \A e \in 1..Len(entries) : CountChar(entries[e], "=") <= 1
                    /\ \A i \in 0..(n - 1) :
                        LET mine == EntriesOf(signature, params[i + 1].arg)
                        IN  IF i >= n - d
                            THEN /\ mine # {}
                                 /\ \A e \in mine : EndsWith(entries[e],
                                        "=" \o unparse(defaults[i - (n - d) + 1]))
                            ELSE \A e \in mine : CountChar(entries[e], "=") = 0

\* the names of the entries of a list of records
NamesOf(entries) == {entries[k].name : k \in 1..Len(entries)}

\* C2: a top-level assignment "max_retries = 3", whose target name is
\* lower-case, yields no ConstantInfo entry.
C2_LowerCaseNameIsNoConstant ==
    \A r \in Records :
        (\E s \in 1..Len(chunks) : chunks[s] = "max_retries = 3")
            => "max_retries" \notin NamesOf(results[r].constants)

\* the name is entirely upper-case: it has a letter and no lower-case one
EntirelyUpperCase(id) ==
    /\ \E i \in 1..Len(id) : Contains(UpperLetters, CharAt(id, i))
    /\ \A i \in 1..Len(id) : ~Contains(LowerLetters, CharAt(id, i))

HasUnderscore(id) == \E i \in 1..Len(id) : CharAt(id, i) = "_"

\* the constants one top-level statement is to yield: one per simple-name
\* target that is entirely upper-case or contains an underscore
ConstantsDue(node) ==
    IF node.type # "Assign" \/ ~CanUnparse(node.value) THEN <<>>
    ELSE Flatten([t \in 1..Len(node.targets) |->
            IF /\ node.targets[t].type = "Name"
               /\ EntirelyUpperCase(node.targets[t].id) \/ HasUnderscore(node.targets[t].id)
            THEN << [name |-> node.targets[t].id, value |-> unparse(node.value)] >>
            ELSE <<>>])

SameUpToLimit(entries, due) ==
    /\ Len(entries) = Len(due)
    /\ \A k \in 1..Len(due) :
        /\ entries[k].name = due[k].name
        /\ Prefix(entries[k].value, ConstantValueLimit)
               = Prefix(due[k].value, ConstantValueLimit)

IsColorFile == chunks = << "class Color(Enum): RED = 1" >>

ColorEnum ==
    [name |-> "Color", docstring |-> NoneStr,
     members |-> << [name |-> "RED", value |-> "1"] >>]

\* C4 as stated: the source "class Color(Enum): RED = 1" yields exactly one
\* EnumInfo, with the single member (RED, 1), and no ClassInfo whose
\* attribute list or method list contains RED.
C4_EnumMemberInNoClassInfo ==
    \A r \in Records : IsColorFile =>
        /\ results[r].enums = << ColorEnum >>
        /\ \A c \in 1..Len(results[r].classes) :
            /\ "RED" \notin NamesOf(results[r].classes[c].attributes)
            /\ "RED" \notin NamesOf(results[r].classes[c].methods)

\* C4: the source "class Color(Enum): RED = 1" yields exactly one EnumInfo,
\* with the single member (RED, 1), and also exactly one ClassInfo, for
\* Color with base Enum, whose attribute list is the one public attribute
\* RED = 1 and whose method list is empty.
C4_EnumMemberAlsoClassAttribute ==
    \A r \in Records : IsColorFile =>
        /\ results[r].enums = << ColorEnum >>
        /\ results[r].classes =
               << [name |-> "Color", docstring |-> NoneStr, methods |-> <<>>,
                   bases |-> << "Enum" >>,
                   attributes |-> << [name |-> "RED", value |-> "1",
                                      is_public |-> TRUE] >>] >>

\* the enum class Color was analyzed and a record came back
C4_Witness == IsColorFile /\ Records # {}

\* the name or a rendered base of the class contains "Error" or "Exception"
NamedLikeException(node) ==
    \/ Contains(node.name, "Error")
    \/ Contains(node.name, "Exception")
    \/ \E b \in 1..Len(node.bases) :
          \/ Contains(unparse(node.bases[b]), "Error")
          \/ Contains(unparse(node.bases[b]), "Exception")

EnumBased(node) == \E b \in 1..Len(node.bases) : Contains(unparse(node.bases[b]), "Enum")

ExceptionOf(node) ==
    [name |-> node.name, docstring |-> extract_docstring(node),
     bases |-> UnparseAll(node.bases)]

\* the top-level classes whose bases render
TopLevelClasses ==
    {s \in 1..Len(TopLevel) :
        TopLevel[s].type = "ClassDef" /\ CanUnparseAll(TopLevel[s].bases)}

\* the ExceptionInfos of a record
ExceptionsOf(record) == {record.exceptions[k] : k \in 1..Len(record.exceptions)}

\* C5 as stated: every top-level class, whatever else it is classified as,
\* yields an ExceptionInfo (name, docstring, bases) whenever a base-type name
\* contains "Exception" or "Error" or its own name contains "Error" or
\* "Exception"; a top-level class meeting none of these yields none.
C5_ExceptionWhateverElse ==
    \A r \in Records : \A s \in TopLevelClasses :
        NamedLikeException(TopLevel[s])
            <=> ExceptionOf(TopLevel[s]) \in ExceptionsOf(results[r])

\* C5: every top-level class none of whose base-type names contains "Enum"
\* yields an ExceptionInfo (name, docstring, bases) whenever a base-type name
\* contains "Exception" or "Error" or its own name contains "Error" or
\* "Exception"; a top-level class meeting none of these, or with a base-type
\* name containing "Enum", yields none; the ExceptionInfos are in source order.
C5_ExceptionUnlessEnum ==
    \A r \in Records :
        results[r].exceptions =
            Flatten([s \in 1..Len(TopLevel) |->
                IF /\ s \in TopLevelClasses
                   /\ NamedLikeException(TopLevel[s])
                   /\ ~EnumBased(TopLevel[s])
                THEN << ExceptionOf(TopLevel[s]) >> ELSE <<>>])

\* an enum named like an exception beside a class named like one was
\* analyzed: only the latter is among the exceptions
C5_Witness ==
    /\ chunks = << "class ErrorCode(Enum): OK = 0", "class ErrorReport: pass" >>
    /\ Records # {}
    /\ \A r \in Records : results[r].exceptions =
           << [name |-> "ErrorReport", docstring |-> NoneStr, bases |-> <<>>] >>

\* the record has no class, no function and no constant
EmptyLists(record) ==
    /\ record.classes = <<>>
    /\ record.functions = <<>>
    /\ record.constants = <<>>

\* C6 as stated: a file whose whole text is "import x" produces no record
\* when it is named __init__.py, and under any other name a record whose
\* class, function and constant lists are empty.
C6_ImportXByName ==
    \A i \in Calls : (readable /\ chunks = << "import x" >>) =>
        IF IsInitFile THEN results[i] = None
        ELSE results[i] # None /\ EmptyLists(results[i])

\* C6: a file whose whole text is "import x" produces no record under any
\* name, its 8 characters being fewer than the 10 the analyzer asks for; a
\* file whose whole text is the 10 characters "import xyz" produces no
\* record when it is named __init__.py, and under any other name a record
\* whose import list is that import and whose class, function and constant
\* lists are empty.
C6_ImportOnlyByLengthAndName ==
    \A i \in Calls :
        /\ (readable /\ chunks = << "import x" >>) => results[i] = None
        /\ (readable /\ chunks = << "import xyz" >>) =>
               IF IsInitFile THEN results[i] = None
               ELSE /\ results[i] # None
                    /\ results[i].imports = << "import xyz" >>
                    /\ EmptyLists(results[i])

\* "import x" was analyzed under a name other than __init__.py: no record
C6_Witness ==
    /\ readable /\ chunks = << "import x" >> /\ ~IsInitFile
    /\ Calls # {}
    /\ \A i \in Calls : results[i] = None

\* C7: for a file whose text cannot be parsed the analyzer returns the skip
\* result without raising, and analyzing the same text again returns the
\* skip result again.
C7_UnparsableIsSkipped ==
    \A i \in Calls : (readable /\ RaisesSyntaxError(chunks)) => results[i] = None

\* a text of 10 characters or more that cannot be parsed was analyzed twice
C7_Witness ==
    /\ readable /\ RaisesSyntaxError(chunks) /\ ~TooSmall(chunks)
    /\ Len(results) = MaxCalls
    /\ \A i \in Calls : results[i] = None

\* every top-level statement of a file that parses is an import
ImportOnly == \A s \in 1..Len(TopLevel) : TopLevel[s].type \in {"Import", "ImportFrom"}

\* the stripped text of the file has 10 characters or more
LongEnough == Len(Strip(Join(chunks, "\n"))) >= 10

\* C8: a file named __init__.py whose top-level body consists only of import
\* statements yields no record; an __init__.py with a top-level statement
\* that is no import is not skipped for this reason, and neither is the same
\* import-only text under another name: either yields a record unless it is
\* too short.
C8_ImportOnlyInitIsSkipped ==
    \A i \in Calls : Parses =>
        /\ (IsInitFile /\ ImportOnly) => results[i] = None
        /\ (IsInitFile /\ ~ImportOnly /\ LongEnough) => results[i] # None
        /\ (~IsInitFile /\ ImportOnly /\ LongEnough) => results[i] # None

\* an import-only __init__.py of 10 characters or more was analyzed: no record
C8_Witness ==
    /\ readable /\ IsInitFile /\ chunks = << "import os, sys" >>
    /\ Calls # {}
    /\ \A i \in Calls : results[i] = None

\* C9: whenever the file's text with surrounding whitespace stripped has
\* fewer than 10 characters the file yields no record, whether or not the
\* text parses; a text whose stripped length is 10 or more is never skipped
\* for this reason: it yields a record if it parses and is no import-only
\* __init__.py.
C9_ShortTextIsSkipped ==
    \A i \in Calls : readable =>
        /\ ~LongEnough => results[i] = None
        /\ (LongEnough /\ Parses /\ ~(IsInitFile /\ ImportOnly)) => results[i] # None

\* a text of 12 characters of which 8 remain when stripped was analyzed
C9_Witness ==
    /\ readable /\ chunks = << "import x", "   " >> /\ ~IsInitFile
    /\ Calls # {}
    /\ \A i \in Calls : results[i] = None

\* the position of the first occurrence of x in xs
FirstAt(xs, x) == CHOOSE k \in 1..Len(xs) : xs[k] = x /\ \A j \in 1..(k - 1) : xs[j] # x

\* everything collected from the import statements of the file, in the
\* order of collection
Collected == ExtractImports(ast_parse(chunks))

\* C10: in every returned record the import list contains no two equal
\* strings, holds exactly the strings collected, and holds them in the
\* order in which each was first collected; a file that imports os twice
\* yields the single entry "import os".
C10_ImportsWithoutDuplicates ==
    \A r \in Records :
        LET imports == results[r].imports
        IN  /\ \A j, k \in 1..Len(imports) : imports[j] = imports[k] => j = k
            /\ {imports[k] : k \in 1..Len(imports)}
                   = {Collected[k] : k \in 1..Len(Collected)}
            /\ \A j, k \in 1..Len(imports) :
                   j < k => FirstAt(Collected, imports[j]) < FirstAt(Collected, imports[k])
            /\ chunks = << "import os", "import os" >> => imports = << "import os" >>

\* a file that imports os twice was analyzed: one entry
C10_Witness ==
    /\ chunks = << "import os", "import os" >>
    /\ Records # {}
    /\ \A r \in Records : results[r].imports = << "import os" >>

\* the function or async function renders: its signature and decorators
\* are produced without an exception
Renders(item) ==
    /\ ~format_function_signature(item).raised
    /\ CanUnparseAll(item.decorator_list)

IsClassWithBases(node) == node.type = "ClassDef" /\ CanUnparseAll(node.bases)

\* the class declarations of the file at any depth whose bases render, in
\* the order in which the analyzer visits them
ClassNodes == SelectSeq(walk(ast_parse(chunks)), IsClassWithBases)

\* the body of the function is exactly one pass statement
OnlyPass(item) == Len(item.body) = 1 /\ item.body[1].type = "Pass"

\* the functions and async functions declared directly in the body of node
\* that are to be listed: those that render and are more than one pass
MethodsDue(node) ==
    {j \in 1..Len(node.body) :
        /\ node.body[j].type \in {"FunctionDef", "AsyncFunctionDef"}
        /\ ~OnlyPass(node.body[j])
        /\ Renders(node.body[j])}

\* how many entries of the list carry the name
CountNamed(entries, name) == Cardinality({k \in 1..Len(entries) : entries[k].name = name})

PublicName(name) == CharAt(name, 1) # "_"

\* public entries precede private ones, and within each group the names are
\* in non-decreasing order of the language's string comparison (character
\* by character, an upper-case letter before "_" before a lower-case one)
PublicFirstThenByName(entries) ==
    \A i, j \in 1..Len(entries) : i < j =>
        /\ PublicName(entries[i].name) \/ ~PublicName(entries[j].name)
        /\ PublicName(entries[i].name) = PublicName(entries[j].name)
               => ~StrLess(entries[j].name, entries[i].name)

\* C12: in every returned record the method list of each class and the
\* top-level function list are ordered so that every public entry (name not
\* starting with an underscore) precedes every private one, and within each
\* of the two groups the names are in non-decreasing order, alphabetical
\* order being that of string comparison.
C12_PublicFirstAlphabetical ==
    \A r \in Records :
        /\ PublicFirstThenByName(results[r].functions)
        /\ \A c \in 1..Len(results[r].classes) :
               PublicFirstThenByName(results[r].classes[c].methods)

\* a private function declared before a public one was analyzed: the
\* public one comes first
C12_Witness ==
    /\ \E s \in 1..Len(chunks) : chunks[s] = "def _b(): return 3"
    /\ \E s \in 1..Len(chunks) : chunks[s] = "def Alpha(): pass"
    /\ Records # {}
    /\ \A r \in Records :
           [k \in 1..Len(results[r].functions) |-> results[r].functions[k].name]
               = << "Alpha", "_b" >>

\* the members an enum class is to show: its body's plain assignments to
\* simple names whose value renders, in source order
MembersDue(node) ==
    Flatten([j \in 1..Len(node.body) |->
        IF node.body[j].type # "Assign" \/ ~CanUnparse(node.body[j].value) THEN <<>>
        ELSE Flatten([t \in 1..Len(node.body[j].targets) |->
                IF node.body[j].targets[t].type = "Name"
                THEN << [name |-> node.body[j].targets[t].id,
                         value |-> unparse(node.body[j].value)] >>
                ELSE <<>>])])

\* C13: in every returned record the EnumInfos are, in source order, one
\* for each top-level class whose bases render and one of whose base-type
\* names contains "Enum", with the class body's plain assignments to simple
\* names as (name, value as written) members in source order; a top-level
\* class with no such base and a class nested in another declaration
\* yield none.
C13_EnumIffBaseContainsEnum ==
    \A r \in Records :
        results[r].enums =
            Flatten([s \in 1..Len(TopLevel) |->
                IF s \in TopLevelClasses /\ EnumBased(TopLevel[s])
                THEN << [name |-> TopLevel[s].name,
                         docstring |-> extract_docstring(TopLevel[s]),
                         members |-> MembersDue(TopLevel[s])] >>
                ELSE <<>>])

\* an enum nested in a function beside a top-level enum with a chained
\* assignment, a tuple assignment and an annotated one was analyzed
C13_Witness ==
    /\ chunks = << "def outer():\n    class Hidden(Enum): Z = 1\n    def inner(): return 1\n    return inner",
                   "class Kind(Enum):\n    A = 1\n    B = C = 2\n    x, y = 3, 4\n    label: str = 'k'\n    def show(self): return 1" >>
    /\ Records # {}
    /\ \A r \in Records : results[r].enums =
           << [name |-> "Kind", docstring |-> NoneStr,
               members |-> << [name |-> "A", value |-> "1"], [name |-> "B", value |-> "2"],
                              [name |-> "C", value |-> "2"] >>] >>

\* the value as it is to be recorded: cut to 200 characters and marked when
\* it is longer, unchanged otherwise
Recorded(value) ==
    IF Len(value) > 200 THEN SubSeq(value, 1, 200) \o "..." ELSE value

\* C14: in every returned record a constant whose value renders to more than
\* 200 characters is recorded as exactly its first 200 characters followed
\* by "...", and a value of 200 characters or fewer is recorded unchanged.
C14_LongValuesAreTruncated ==
    \A r \in Records :
        LET due == Flatten([s \in 1..Len(TopLevel) |-> ConstantsDue(TopLevel[s])])
        IN  /\ Len(results[r].constants) = Len(due)
            /\ \A k \in 1..Len(due) :
                /\ results[r].constants[k].name = due[k].name
                /\ results[r].constants[k].value = Recorded(due[k].value)

\* a constant of 200 characters and one of 201 were analyzed
C14_Witness ==
    /\ Len(chunks) = 2
    /\ StartsWith(chunks[1], "EDGE = ") /\ Len(chunks[1]) = 207
    /\ StartsWith(chunks[2], "OVER = ") /\ Len(chunks[2]) = 208
    /\ Records # {}
    /\ \A r \in Records :
        /\ Len(results[r].constants[1].value) = 200
        /\ Len(results[r].constants[2].value) = 203
        /\ EndsWith(results[r].constants[2].value, "1...")

\* the functions and async functions declared directly in the file body
\* that render
FunctionsDue ==
    {s \in 1..Len(TopLevel) :
        /\ TopLevel[s].type \in {"FunctionDef", "AsyncFunctionDef"}
        /\ Renders(TopLevel[s])}

Variadic(stars, arg) ==
    IF arg.annotation = NoNode THEN stars \o arg.arg
    ELSE stars \o arg.arg \o ": " \o unparse(arg.annotation)

\* the entries a signature is to end with: the variadic positional parameter,
\* then the variadic keyword parameter, each when declared
VariadicsDue(func_node) ==
    (IF func_node.args.vararg = NoNode THEN <<>>
     ELSE << Variadic("*", func_node.args.vararg) >>)
    \o (IF func_node.args.kwarg = NoNode THEN <<>>
        ELSE << Variadic("**", func_node.args.kwarg) >>)

\* which of the positional parameters the entry renders, 0 when none
PositionalAt(func_node, signature, e) ==
    LET params == Positional(func_node)
        hits == {g \in 1..Len(params) : e \in EntriesOf(signature, params[g].arg)}
    IN  IF hits = {} THEN 0 ELSE CHOOSE g \in hits : TRUE

\* C17: a rendered signature is "def <name>(<entries>)", where the entries
\* are first positional parameters in their source order, then the variadic
\* positional parameter as "*name" (with ": type" if annotated), then the
\* variadic keyword parameter as "**name" (with ": type" if annotated); it
\* ends with " -> <type>" exactly when a return annotation is present.
C17_VariadicsAndReturnType ==
    \A r \in Records : \A s \in 1..Len(TopLevel) :
        IsFunction(TopLevel[s]) =>
            \A signature \in SignaturesOf(results[r], TopLevel[s].name) :
                LET fn == TopLevel[s]
                    entries == ParamEntries(signature)
                    tail == VariadicsDue(fn)
                    first == Len(entries) - Len(tail)
                IN  /\ StartsWith(signature, "def " \o fn.name \o "(")
                    /\ first >= 0
                    /\ SubSeq(entries, first + 1, Len(entries)) = tail
                    /\ \A e \in 1..first :
                        /\ ~StartsWith(entries[e], "*")
                        /\ PositionalAt(fn, signature, e) > 0
                    /\ \A e, f \in 1..first : e < f =>
                        PositionalAt(fn, signature, e) < PositionalAt(fn, signature, f)
                    /\ IF fn.returns = NoNode
                       THEN EndsWith(signature, ")") /\ Find(signature, " -> ") = 0
                       ELSE EndsWith(signature, ") -> " \o unparse(fn.returns))

\* a function with an annotated parameter of each kind and a return type
\* was analyzed
C17_Witness ==
    /\ chunks = << "def f(a1: int, *args: int, **kwargs: int) -> int: return 0" >>
    /\ Records # {}
    /\ \A r \in Records :
           SignaturesOf(results[r], "f") =
               { "def f(a1: int, *args: int, **kwargs: int) -> int" }


(***************************************************************************)
(* Several calls, on the same file and on others.                          *)
(***************************************************************************)

AfterPrefix(url) ==
    LET prefix == CHOOSE q \in UrlPrefixes : StartsWith(url, q)
    IN  SubSeq(url, Len(prefix) + 1, Len(url))

\* s without the suffix, if it ends with it
WithoutSuffix(s, suffix) ==
    IF EndsWith(s, suffix) THEN SubSeq(s, 1, Len(s) - Len(suffix)) ELSE s

\* "<owner>/<repo>" of a URL: what follows the prefix, less one trailing "/"
\* and then one ".git"
OwnerAndRepo(url) == WithoutSuffix(WithoutSuffix(AfterPrefix(url), "/"), ".git")

\* C20: for every URL that validate_github_url accepts, normalize_github_url
\* returns "https://github.com/<owner>/<repo>" with the owner and the
\* repository of the URL, having removed nothing but a trailing "/" and a
\* ".git" suffix.
C20_NormalizedKeepsOwnerAndRepo ==
    (validate_github_url(github_url) /\ normalized # NoneStr)
        => normalized = "https://github.com/" \o OwnerAndRepo(github_url)

(***************************************************************************)
(* A run of main.                                                          *)
(***************************************************************************)

\* main has terminated
Terminated == run.pc = "done"

\* the steps taken, by name
StepNames == [i \in 1..Len(steps) |-> steps[i].step]

\* the step was taken with the outcome
Took(step, outcome) ==
    \E i \in 1..Len(steps) : steps[i].step = step /\ steps[i].outcome = outcome

\* nothing failed in the environment: no step met an exception or an
\* interrupt
NoFailure ==
    \A i \in 1..Len(steps) : steps[i].outcome \in {"ok", "free"}

\* the steps of main's block, in the order of the source
StepsInOrder == <<"clone", "info", "extract", "analyze", "generate", "write">>

\* C18: a run with a valid URL, an output path that does not exist yet, a
\* clone that succeeds and no failure of the file system takes the steps
\* clone, extract, analyze, generate and write in this order and terminates
\* with the markdown written and without exit status 1.
C18_RunWritesTheMarkdown ==
    (/\ Terminated
     /\ validate_github_url(github_url)
     /\ Took("output", "free")
     /\ Took("clone", "ok")
     /\ NoFailure)
        => /\ SelectSeq(StepNames, LAMBDA n : n \in BlockSteps) = StepsInOrder
           /\ run.output_written
           /\ run.exit_status # 1

DeclaredParameters(func_node) ==
    {func_node.args.posonlyargs[i].arg : i \in 1..Len(func_node.args.posonlyargs)}
    \cup {func_node.args.args[i].arg : i \in 1..Len(func_node.args.args)}
    \cup {func_node.args.kwonlyargs[i].arg : i \in 1..Len(func_node.args.kwonlyargs)}
    \cup (IF func_node.args.vararg = NoNode THEN {} ELSE {"*" \o func_node.args.vararg.arg})
    \cup (IF func_node.args.kwarg = NoNode THEN {} ELSE {"**" \o func_node.args.kwarg.arg})

\* C25: every parameter a function declares (positional-only, positional,
\* keyword-only, *args, **kwargs) appears in its rendered signature exactly
\* once.
C25_EveryParameterOnce ==
    \A r \in Records : \A s \in 1..Len(TopLevel) :
        IsFunction(TopLevel[s]) =>
            \A signature \in SignaturesOf(results[r], TopLevel[s].name) :
                \A name \in DeclaredParameters(TopLevel[s]) :
                    Cardinality(EntriesOf(signature, name)) = 1

(***************************************************************************)
(* The order of the class list.                                            *)
(***************************************************************************)

\* the statements of a list and all statements below them, each in the place
\* where its text begins
RECURSIVE InSourceOrder(_)
InSourceOrder(stmts) ==
    IF Len(stmts) = 0 THEN <<>>
    ELSE <<Head(stmts)>> \o InSourceOrder(ChildStmts(Head(stmts)))
             \o InSourceOrder(Tail(stmts))

\* the names of the class declarations of the file whose bases render, in
\* the order of the source text
ClassNamesInSourceOrder ==
    LET nodes == SelectSeq(InSourceOrder(TopLevel), IsClassWithBases)
    IN  [k \in 1..Len(nodes) |-> nodes[k].name]

\* C24: the class list of a record lists the class declarations in the
\* order in which they appear in the source text, also when a class nested
\* in a class or function is followed by a later top-level class.
C24_ClassesInSourceOrder ==
    \A r \in Records :
        [k \in 1..Len(results[r].classes) |-> results[r].classes[k].name]
            = ClassNamesInSourceOrder

(***************************************************************************)
(* The entry-point block.                                                  *)
(***************************************************************************)

\* a top-level statement that is an "if" whose test is a comparison that
\* mentions both __name__ and __main__
IsMainGuard(node) ==
    /\ node.type = "If"
    /\ node.test.type = "Compare"
    /\ CanUnparse(node.test)
    /\ Find(unparse(node.test), "__name__") > 0
    /\ Find(unparse(node.test), "__main__") > 0

\* the main guards of the file, in source order
MainGuards == SelectSeq(TopLevel, IsMainGuard)

\* where the first line of s ends: the place of its first newline, 0 when
\* it has none
FirstNewline(s) ==
    LET at == {i \in 1..Len(s) : CharAt(s, i) = "\n"}
    IN  IF at = {} THEN 0 ELSE CHOOSE i \in at : \A j \in at : i <= j

\* the lines of a text
RECURSIVE LinesOf(_)
LinesOf(s) ==
    LET at == FirstNewline(s)
    IN  IF at = 0 THEN <<s>>
        ELSE <<SubSeq(s, 1, at - 1)>> \o LinesOf(SubSeq(s, at + 1, Len(s)))

\* the lines of a record's entry-point block, none when it is absent
BlockLines(record) ==
    IF record.main_block = NoneStr THEN <<>> ELSE LinesOf(record.main_block)

\* the texts of the first five statements of a guard's body that render
FirstFiveTexts(guard) ==
    LET first == SelectSeq(FirstN(guard.body, 5), CanUnparse)
    IN  [i \in 1..Len(first) |-> unparse(first[i])]

\* xs is ys with some elements left out, the others in their order
RECURSIVE IsSubsequence(_, _)
IsSubsequence(xs, ys) ==
    IF Len(xs) = 0 THEN TRUE
    ELSE IF Len(ys) = 0 THEN FALSE
    ELSE IF Head(xs) = Head(ys) THEN IsSubsequence(Tail(xs), Tail(ys))
    ELSE IsSubsequence(xs, Tail(ys))

IsShortLine(text) == Len(text) < 500

\* C22 as claimed: a statement of the guard's body, among the first five,
\* whose rendered text is 500 characters or longer is in the block, cut to
\* 500 characters.
C22_LongStatementIsCapped ==
    \A r \in Records :
        Len(MainGuards) = 1 =>
            LET texts == FirstFiveTexts(MainGuards[1])
            IN  \A i \in 1..Len(texts) :
                    Len(texts[i]) >= 500 =>
                        \E k \in 1..Len(BlockLines(results[r])) :
                            BlockLines(results[r])[k] = Prefix(texts[i], 500)

\* C22 as amended: a statement of the guard's body whose rendered text is
\* 500 characters or longer is left out of the block, whole; the block is
\* made of the texts shorter than 500 characters among the first five
\* statements, each unchanged.
C22_LongStatementIsLeftOut ==
    \A r \in Records :
        Len(MainGuards) = 1 =>
            LET texts == FirstFiveTexts(MainGuards[1])
                lines == BlockLines(results[r])
            IN  /\ \A i \in 1..Len(texts) :
                       Len(texts[i]) >= 500 =>
                           \A k \in 1..Len(lines) :
                               lines[k] # texts[i] /\ lines[k] # Prefix(texts[i], 500)
                /\ lines = SelectSeq(texts, IsShortLine)

\* a guard with a statement of 500 characters between two short ones was
\* analyzed: the block holds the two short ones.
C22_Witness ==
    /\ Len(chunks) = 1
    /\ Len(MainGuards) = 1
    /\ Len(FirstFiveTexts(MainGuards[1])) = 3
    /\ Len(FirstFiveTexts(MainGuards[1])[2]) = 500
    /\ Records # {}
    /\ \A r \in Records : results[r].main_block = "first()\nlast()"

\* C23: the entry-point block is set only from a top-level "if" whose test
\* is a comparison mentioning both __name__ and __main__; it is built from
\* at most the first five statements of that guard's body, joined in source
\* order, and a sixth or later statement never contributes to it; with no
\* such guard the entry point is absent.
C23_BlockFromFirstFiveStatements ==
    \A r \in Records :
        /\ Len(MainGuards) = 0 => results[r].main_block = NoneStr
        /\ results[r].main_block # NoneStr =>
               \E g \in 1..Len(MainGuards) :
                   /\ Len(BlockLines(results[r])) <= 5
                   /\ IsSubsequence(BlockLines(results[r]), FirstFiveTexts(MainGuards[g]))

\* a guard of six statements was analyzed: the block holds the first five.
C23_Witness ==
    /\ Len(chunks) = 1
    /\ Len(MainGuards) = 1
    /\ Len(MainGuards[1].body) = 6
    /\ Records # {}
    /\ \A r \in Records : results[r].main_block = "a()\nb()\nc()\nd()\ne()"

(***************************************************************************)
(* Declarations that fail to render.                                       *)
(***************************************************************************)

\* the file holds a declaration that fails to render
HasFailing == \E i \in 1..Len(chunks) : chunks[i] \in FailingSources

\* the row of the table for a source with a failing declaration
FailingRow(src) == Failing[CHOOSE i \in DOMAIN Failing : Failing[i].src = src]

\* the file's text if every declaration rendered: 0 in the place of each
\* sum that is too deep
Twins ==
    [i \in 1..Len(chunks) |->
        IF chunks[i] \in FailingSources THEN FailingRow(chunks[i]).twin ELSE chunks[i]]

\* the file's text without the failing declarations: a top-level one is
\* gone with its chunk, one below the top level is gone from its chunk
WithoutFailing ==
    Flatten([i \in 1..Len(chunks) |->
        IF chunks[i] \notin FailingSources THEN <<chunks[i]>>
        ELSE IF FailingRow(chunks[i]).without = NoneStr THEN <<>>
        ELSE <<FailingRow(chunks[i]).without>>])

\* the names of the declarations that fail in the files of the model
FailingNames ==
    {"DEEP_CONST", "DeepAlias", "deep_func", "deep_method", "deep_attr", "DeepError", "DARK"}

\* the entries of a list that are not those of a failing declaration
NotFailing(entry) == entry.name \notin FailingNames

Others(entries) == SelectSeq(entries, NotFailing)

\* a record less the entries of the failing declarations and less its
\* entry-point block
OtherEntries(record) ==
    [record EXCEPT
        !.classes = [k \in 1..Len(Others(record.classes)) |->
            [Others(record.classes)[k] EXCEPT
                !.methods = Others(Others(record.classes)[k].methods),
                !.attributes = Others(Others(record.classes)[k].attributes)]],
        !.functions = Others(record.functions),
        !.constants = Others(record.constants),
        !.enums = [k \in 1..Len(Others(record.enums)) |->
            [Others(record.enums)[k] EXCEPT
                !.members = Others(Others(record.enums)[k].members)]],
        !.exceptions = Others(record.exceptions),
        !.type_aliases = Others(record.type_aliases),
        !.main_block = NoneStr]

\* a guard's block: the texts of its first five statements that render and
\* are shorter than 500 characters
BlockOf(guard) == SelectSeq(FirstFiveTexts(guard), IsShortLine)

HasBlock(guard) == BlockOf(guard) # <<>>

\* the entry-point block due: that of the last main guard that has one
BlockDue ==
    LET guards == SelectSeq(MainGuards, HasBlock)
    IN  IF guards = <<>> THEN NoneStr ELSE Join(BlockOf(guards[Len(guards)]), "\n")

\* C21 as claimed: when the rendering of a declaration fails, a record is
\* still returned and it equals the record of the same file without the
\* failing declaration (where that file gives a record at all).
C21_EqualsFileWithoutDeclaration ==
    \A i \in Calls :
        (HasFailing /\ readable) =>
            /\ results[i] # None
            /\ LET rest == analyze_python_file(file_path, readable, WithoutFailing)
               IN  rest # None => results[i] = rest

\* C21 as amended: when the rendering of a declaration fails, a record is
\* still returned; it holds every entry that the file would give if the
\* declaration rendered, unchanged and in the same order, except the entries
\* of the failing declaration; a failing statement of a main guard is left
\* out of the block of its guard, and a guard left with no statement sets
\* no block.
C21_OtherEntriesUnchanged ==
    \A i \in Calls :
        (HasFailing /\ readable) =>
            /\ results[i] # None
            /\ LET ideal == analyze_python_file(file_path, readable, Twins)
               IN  /\ ideal # None
                   /\ OtherEntries(results[i]) = OtherEntries(ideal)
                   /\ \A name \in FailingNames :
                          /\ name \notin NamesOf(results[i].classes)
                          /\ name \notin NamesOf(results[i].functions)
                          /\ name \notin NamesOf(results[i].constants)
                          /\ name \notin NamesOf(results[i].exceptions)
                          /\ name \notin NamesOf(results[i].type_aliases)
                          /\ OtherEntries(results[i]).classes = results[i].classes
                          /\ OtherEntries(results[i]).enums = results[i].enums
            /\ results[i].main_block = BlockDue

\* a class with a method that fails and a guard of six statements whose
\* second fails were analyzed: the class keeps its other method, the block
\* holds the other four of the first five statements.
C21_Witness ==
    /\ Len(chunks) = 2
    /\ chunks[1] = Failing[4].src
    /\ chunks[2] = Failing[9].src
    /\ Records # {}
    /\ \A r \in Records :
           /\ Len(results[r].classes) = 1
           /\ NamesOf(results[r].classes[1].methods) = {"ok"}
           /\ results[r].main_block = "a()\nc()\nd()\ne()"

(***************************************************************************)
(* The steps of main that may fail, and the output path.                   *)
(***************************************************************************)

\* the steps whose failure is to end the run
FatalSteps == {"clone", "extract", "generate", "write"}

\* the step met an exception in the environment
Failed(i) == steps[i].outcome \in {"Exception", "GitCommandError", "OSError"}

\* no step but the analysis met an exception, and there was no interrupt
OnlyAnalysisMayHaveFailed ==
    \A i \in 1..Len(steps) :
        /\ steps[i].outcome # "KeyboardInterrupt"
        /\ Failed(i) => steps[i].step = "analyze"

\* C26: the analysis of the Python files is the only step of main whose
\* failure is not fatal.  A failure of the clone, the extraction, the
\* generation or the write ends the run with exit status 1 and no later
\* step is taken; an exception in the analysis leaves an empty list of
\* analyses and the run goes on: a run of a valid URL in which no other
\* step fails goes through the generation and the write.
C26_OnlyAnalysisFailureIsNotFatal ==
    /\ \A i \in 1..Len(steps) :
           (steps[i].step \in FatalSteps /\ Failed(i)) =>
               /\ i = Len(steps)
               /\ Terminated
               /\ run.exit_status = 1
    /\ \A i \in 1..Len(steps) :
           (steps[i].step = "analyze" /\ Failed(i)) =>
               /\ run.python_analyses = "empty"
               /\ i < Len(steps) => steps[i + 1].step = "generate"
    /\ (/\ Terminated
        /\ validate_github_url(github_url)
        /\ OnlyAnalysisMayHaveFailed)
           => /\ Took("generate", "ok")
              /\ Took("write", "ok")
              /\ run.output_written
              /\ run.exit_status # 1

\* C27: main does not overwrite a file that was there when the run began:
\* the path main settles on for write_markdown, given with -o or made of
\* the answer to the prompt, is one that did not exist when it was chosen,
\* and nothing is written to a path that did.
C27_OutputPathDidNotExist ==
    /\ run.output_path # "existing"
    /\ ~(run.output_written /\ run.output_path = "existing")

(***************************************************************************)
(* The README and the example files of a repository.                       *)
(***************************************************************************)

\* the file is outside the directories the search for files leaves out
OutsideExcluded(path) ==
    \A i \in 1..(Len(path) - 1) : path[i] \notin FilesExcludeDirs

\* a file a README may be taken from under the pattern: it matches the
\* pattern, is outside the excluded directories, can be read and is not
\* empty
IsReadmeFor(path, pattern) ==
    /\ PathName(path) = pattern
    /\ OutsideExcluded(path)
    /\ repo_path[path] \notin {Binary, ""}

\* the patterns, by their place in README_PATTERNS, that have such a file
PatternsWithReadme ==
    {k \in 1..Len(README_PATTERNS) : \E path \in Files : IsReadmeFor(path, README_PATTERNS[k])}

\* C28: extract_readme returns the README of the earliest pattern of
\* README_PATTERNS for which the repository holds, outside the excluded
\* directories, a matching file that can be read and is not empty; it
\* returns None only when no pattern has such a file.
C28_ReadmeOfEarliestPattern ==
    extracted.readme_called =>
        IF PatternsWithReadme = {} THEN extracted.readme = None
        ELSE LET earliest == CHOOSE k \in PatternsWithReadme :
                                 \A j \in PatternsWithReadme : k <= j
             IN  /\ extracted.readme # None
                 /\ \E path \in Files :
                        /\ IsReadmeFor(path, README_PATTERNS[earliest])
                        /\ extracted.readme =
                               [path |-> get_relative_path(path), content |-> repo_path[path]]

\* the entries of the result of extract_example_files for the file
EntriesFor(path) ==
    {i \in 1..Len(extracted.example_files) :
        extracted.example_files[i].path = get_relative_path(path)}

\* C29: for every name of EXAMPLE_DIR_NAMES, test and tests among them, a
\* directory of that name directly under the root is found as an example
\* directory: each text file below it that can be read is in the result of
\* extract_example_files, with its content.
C29_EveryExampleDirectoryIsFound ==
    extracted.examples_called =>
        \A k \in 1..Len(EXAMPLE_DIR_NAMES) : \A path \in Files :
            (IsBelow(path, <<EXAMPLE_DIR_NAMES[k]>>) /\ repo_path[path] # Binary) =>
                \E i \in EntriesFor(path) :
                    extracted.example_files[i].content = repo_path[path]

\* C30: the result of extract_example_files holds each file at most once,
\* also when one example directory lies in another (examples/demo).
C30_EachExampleFileOnce ==
    extracted.examples_called =>
        \A path \in Files : Cardinality(EntriesFor(path)) <= 1

=============================================================================
